---- MODULE Spec2Model ----
(***************************************************************************)
(* A model of two subsystems of the repository:                            *)
(*                                                                         *)
(*  - src/box/recovery.cc: replay of a directory of WAL segments           *)
(*    (recover_remaining_wals, recovery_open_log, recover_xlog) and the    *)
(*    hot-standby fiber that follows the directory (hot_standby_f);        *)
(*  - src/box/module_cache.c: the cache of loaded shared libraries, the    *)
(*    binding of symbols, calls and reload.                                *)
(*                                                                         *)
(* The WAL writer, the file system and the fibers that call into the       *)
(* module cache are the environment.  SpecRec is the recovery system,      *)
(* SpecMod the module cache.                                               *)
(***************************************************************************)
EXTENDS Integers, Sequences, FiniteSets, TLC

\* ------------------------------------------------------------------ bounds

NumReplicas == 2
MaxSignature == 2
MaxSegs == 2
MaxLossSegs == 3
MaxFaultAt == 1
MaxDeletes == 1
NumSyms == 3
NumUsers == 2
NumFuncs == 2
MaxGrants == 2
MaxDepth == 2
MaxHandles == 2
MaxRef == 2
NumCboxFuncs == 2
MaxTasks == 2
MaxModules == 3
MaxInstalls == 1

Replicas == 1..NumReplicas

VARIABLES
    wal_files,      \* the WAL directory: a sequence of segments, in creation order
    wal_vclock,     \* the vclock of the WAL writer
    deletes,        \* how many segments were removed from the directory
    r_state,        \* "none", "null", "ready", "failed", "finalized", "deleted"
    r_vclock,       \* struct recovery: vclock
    r_force,        \* struct recovery: wal_dir.force_recovery
    cursor,         \* struct recovery: cursor
    wal_dir_index,  \* struct recovery: wal_dir.index, the segments of the last scan
    last,           \* the calls of recover_remaining_wals: the rows rejected by
                    \* the stream and the segments read to their EOF marker
                    \* so far, the result of the last call, and its bound
                    \* when it succeeded
    emitted,        \* the rows xstream_write has accepted, in order
    hs_pc,          \* hot_standby_f: "none", "top", "again", "after", "wait", "dead"
    hs_scan_dir,    \* hot_standby_f: scan_dir
    ws_events,      \* struct wal_subscr: events
    ws_file,        \* struct wal_subscr: the segment watched by file_stat (0: none)
    cancelled,      \* the hot-standby fiber was cancelled
    watcher         \* struct recovery: watcher != NULL

\* the directory and its writer; the recovery object; the hot-standby fiber
wal_vars == <<wal_files, wal_vclock, deletes>>
rec_vars == <<r_state, r_vclock, r_force, cursor, wal_dir_index, last, emitted>>
hs_vars == <<hs_pc, hs_scan_dir, ws_events, ws_file, cancelled, watcher>>
rvars == <<wal_vars, rec_vars, hs_vars>>

\* the module cache
VARIABLES
    modules,    \* every struct module ever allocated, by number: package,
                \* loaded (FALSE once module_delete ran), mod_sym_head (first
                \* entry first), calls, exports (the symbols of its library)
    mod_hash,   \* the cache: package -> module number, 0 when absent
    mod_syms,   \* struct module_sym of each binding: addr, module (0: NULL)
    dso,        \* the library files: package -> exported symbols, or NotFound
    installs,   \* how many times a library file was replaced
    frames,     \* per task: the module pinned by its call in flight (0: none)
    crashed,    \* the process has aborted (an assertion, a panic, a fault)
    ret,        \* the last operation: op, package, rc, module (the out parameter)
                \* and, of a reload, lua (what the script is given), of a
                \* return, diag (the diagnostic of the task) and port
    diag        \* per task: whether the diagnostics area of the fiber holds
                \* a last error ("none": diag_last_error gives NULL, "set":
                \* it gives the error some earlier operation has left)

mod_vars == <<modules, mod_hash, mod_syms, dso, installs, frames, crashed, ret,
              diag>>

\* the functions of the schema and the fiber that calls them
VARIABLES
    funcs,              \* struct func by number: exists, uid (the owner),
                        \* setuid, owner_credentials ("empty" or "filled"),
                        \* access (per user: the privileges granted on it)
    universal_access,   \* per user: the privileges granted on the universe
    entity_access,      \* per user: the privileges granted on all functions
    grants,             \* how many privileges were granted
    session_uid,        \* the user of the session of the fiber (0: no
                        \* session yet)
    effective,          \* the credentials of the fiber: 0 those of its
                        \* session, f the owner_credentials of function f
    fstack,             \* the calls of func_call in flight, innermost first:
                        \* func, orig_credentials, and entered (the
                        \* credentials func_call was entered with)
    fret                \* the last func_call that returned: func, rc, at

func_vars == <<funcs, universal_access, entity_access, grants, session_uid,
               effective, fstack, fret>>

\* the function objects of cbox
VARIABLES
    cf_state,       \* struct cbox_func of each binding: "none" (not
                    \* allocated), "live", "freed"
    cf_ref,         \* struct cbox_func: ref
    func_rb_root,   \* the tree of the functions, as the set of its nodes
    handles,        \* the Lua objects cbox.func.load has returned that are
                    \* not collected yet: the struct cbox_func each wraps
                    \* (0: no such object)
    cbox_ret        \* the last operation of cbox: op, name, rc, cf (the
                    \* function object it has worked on, 0: none)

cbox_vars == <<cf_state, cf_ref, func_rb_root, handles, cbox_ret>>

box_vars == <<func_vars, cbox_vars>>

vars == <<rvars, mod_vars, box_vars>>

\* ------------------------------------------------------------ vclock algebra

ZeroClock == [i \in Replicas |-> 0]

RECURSIVE SumTo(_, _)
SumTo(v, n) == IF n = 0 THEN 0 ELSE v[n] + SumTo(v, n - 1)

\* signature(V) = sum of the lsns
vclock_sum(v) == SumTo(v, NumReplicas)

\* the vclocks of the model
Vclock == {v \in [Replicas -> 0..MaxSignature] : vclock_sum(v) <= MaxSignature}

VCLOCK_ORDER_UNDEFINED == 2147483647

\* 0 when equal, -1 when a <= b, 1 when a >= b, VCLOCK_ORDER_UNDEFINED otherwise
vclock_compare(a, b) ==
    LET le == \A i \in Replicas : a[i] <= b[i]
        ge == \A i \in Replicas : a[i] >= b[i]
    IN  IF le /\ ge THEN 0
        ELSE IF le THEN -1
        ELSE IF ge THEN 1
        ELSE VCLOCK_ORDER_UNDEFINED

vclock_get(v, id) == v[id]

\* vclock_follow_xrow: the clock of row.replica_id becomes row.lsn
vclock_follow_xrow(v, row) == [v EXCEPT ![row.replica_id] = row.lsn]

UnsetClock == [set |-> FALSE, v |-> ZeroClock]
SetClock(v) == [set |-> TRUE, v |-> v]
vclock_is_set(p) == p.set

\* ------------------------------------------------------------ cursor, index

NewCursor == [state |-> "NEW", seg |-> 0, pos |-> 0,
              meta |-> [vclock |-> ZeroClock, prev_vclock |-> UnsetClock]]

xlog_cursor_is_open(c) == c.state \in {"ACTIVE", "EOF"}
xlog_cursor_is_eof(c) == c.state \in {"EOF", "EOF_CLOSED"}

\* the EOF latch outlives the close
xlog_cursor_close(c) ==
    [c EXCEPT !.state = IF @ = "EOF" THEN "EOF_CLOSED" ELSE "CLOSED"]

SegVclock(i) == wal_files[i].vclock

\* the segments of set S in the order of their signatures
RECURSIVE SortBySignature(_)
SortBySignature(S) ==
    IF S = {} THEN <<>>
    ELSE LET m == CHOOSE i \in S : \A j \in S :
                      \/ vclock_sum(SegVclock(i)) < vclock_sum(SegVclock(j))
                      \/ (vclock_sum(SegVclock(i)) = vclock_sum(SegVclock(j)) /\ i <= j)
         IN  <<m>> \o SortBySignature(S \ {m})

\* xdir_scan: the index holds the segments present in the directory
xdir_scan == SortBySignature({i \in 1..Len(wal_files) : wal_files[i].present})

InIndex(index, seg) == \E k \in 1..Len(index) : index[k] = seg

\* vclockset_search: the entry of the index with this vclock (0: none)
vclockset_search(index, v) ==
    IF \E k \in 1..Len(index) : vclock_compare(SegVclock(index[k]), v) = 0
    THEN index[CHOOSE k \in 1..Len(index) : vclock_compare(SegVclock(index[k]), v) = 0]
    ELSE 0

\* vclockset_match: the last entry that is <= key; the first entry when none is
vclockset_match(index, key) ==
    LET below == {k \in 1..Len(index) : vclock_compare(SegVclock(index[k]), key) <= 0}
    IN  IF Len(index) = 0 THEN 0
        ELSE IF below = {} THEN index[1]
        ELSE index[CHOOSE k \in below : \A j \in below : j <= k]

\* vclockset_next: the entry after seg (0: none)
vclockset_next(index, seg) ==
    LET at == {k \in 1..Len(index) : index[k] = seg}
    IN  IF at = {} THEN 0
        ELSE LET k == CHOOSE k \in at : TRUE
             IN  IF k < Len(index) THEN index[k + 1] ELSE 0

\* --------------------------------------------------------------- WAL writer

LastSeg == Len(wal_files)

\* the directory is followed while a recovery object reads it
Followed == r_state = "ready"

\* a variant that records the events only while the fiber waits
wal_subscr_wakeup_parked(events) ==
    IF hs_pc = "wait" THEN ws_events \cup events ELSE ws_events

\* wal_subscr_wakeup: the events are recorded while the subscription exists
wal_subscr_wakeup(events) ==
    IF hs_pc \in {"top", "again", "after", "wait"}
    THEN ws_events \cup events ELSE ws_events

\* wal_subscr_file_stat_cb fires for the watched file only
FileEvent(seg) == IF ws_file = seg /\ seg # 0 THEN {"WRITE"} ELSE {}

\* the writer appends the next row of a replica to the last segment; the
\* replicas being interchangeable, the first row of the log is replica 1's
WalWrite(id) ==
    /\ Followed
    /\ wal_vclock = ZeroClock => id = 1
    /\ LastSeg > 0
    /\ ~wal_files[LastSeg].eof
    /\ vclock_sum(wal_vclock) < MaxSignature
    /\ wal_vclock' = [wal_vclock EXCEPT ![id] = @ + 1]
    /\ wal_files' = [wal_files EXCEPT ![LastSeg].rows =
                        Append(@, [replica_id |-> id, lsn |-> wal_vclock[id] + 1])]
    /\ ws_events' = wal_subscr_wakeup(FileEvent(LastSeg))
    /\ UNCHANGED <<deletes, rec_vars, hs_pc, hs_scan_dir, ws_file, cancelled, watcher>>
    /\ UNCHANGED <<mod_vars, box_vars>>

\* the writer finishes the last segment with the EOF marker
WalEof ==
    /\ Followed
    /\ LastSeg > 0
    /\ ~wal_files[LastSeg].eof
    /\ wal_files' = [wal_files EXCEPT ![LastSeg].eof = TRUE]
    /\ ws_events' = wal_subscr_wakeup(FileEvent(LastSeg))
    /\ UNCHANGED <<wal_vclock, deletes, rec_vars, hs_pc, hs_scan_dir, ws_file,
                   cancelled, watcher>>
    /\ UNCHANGED <<mod_vars, box_vars>>

\* what a new segment may carry as prev_vclock: nothing (legacy), the vclock of
\* the previous segment, or the clock the previous segment ended at
PrevChoices ==
    IF LastSeg = 0 THEN {UnsetClock}
    ELSE {UnsetClock, SetClock(wal_files[LastSeg].vclock), SetClock(wal_vclock)}

\* the writer creates the next segment, named by its vclock; the previous one
\* lacks the EOF marker when the writer had crashed
WalRotateUpTo(n, prev) ==
    /\ Followed
    /\ LastSeg < n
    /\ LastSeg > 0 => vclock_sum(wal_vclock) > vclock_sum(wal_files[LastSeg].vclock)
    /\ wal_files' = Append(wal_files,
                           [vclock |-> wal_vclock, prev_vclock |-> prev,
                            rows |-> <<>>, eof |-> FALSE, present |-> TRUE])
    /\ ws_events' = wal_subscr_wakeup({"ROTATE"})
    /\ UNCHANGED <<wal_vclock, deletes, rec_vars, hs_pc, hs_scan_dir, ws_file,
                   cancelled, watcher>>
    /\ UNCHANGED <<mod_vars, box_vars>>

WalRotate(prev) == WalRotateUpTo(MaxSegs, prev)

\* a segment is removed from the directory (garbage collection, an operator)
WalDelete(i) ==
    /\ Followed
    /\ i \in 1..LastSeg
    /\ wal_files[i].present
    /\ deletes < MaxDeletes
    /\ deletes' = deletes + 1
    /\ wal_files' = [wal_files EXCEPT ![i].present = FALSE]
    /\ ws_events' = wal_subscr_wakeup({"ROTATE"})
    /\ UNCHANGED <<wal_vclock, rec_vars, hs_pc, hs_scan_dir, ws_file, cancelled,
                   watcher>>
    /\ UNCHANGED <<mod_vars, box_vars>>

\* ----------------------------------------------------------------- recovery

\* A fault that strikes one call of recover_remaining_wals: the at-th event of
\* its kind fails.  "scan": xdir_scan; "open": xdir_open_cursor; "read": a row
\* cannot be decoded; "stream": xstream_write; "trigger": an on_close_log trigger.
NoFault == [kind |-> "none", at |-> 0]
FaultPlans ==
    {NoFault} \cup [kind : {"scan", "open", "read", "stream", "trigger"},
                    at : 1..MaxFaultAt]

\* the event of kind `kind` that happens now is counted, and fails when it is
\* the one the plan names
Count(st, plan, kind) ==
    IF plan.kind = kind THEN [st EXCEPT !.n = @ + 1] ELSE st
Strikes(st, plan, kind) == plan.kind = kind /\ st.n + 1 = plan.at

\* recovery_new: the object is created before the directory is looked at
RecoveryNew(vclock, force_recovery) ==
    /\ r_state = "none"
    /\ wal_files = <<>>
    /\ r_state' = "ready"
    /\ r_vclock' = vclock
    /\ r_force' = force_recovery
    /\ cursor' = NewCursor
    /\ wal_dir_index' = <<>>
    /\ watcher' = FALSE
    /\ UNCHANGED <<wal_vars, last, emitted, hs_pc, hs_scan_dir, ws_events,
                   ws_file, cancelled>>
    /\ UNCHANGED <<mod_vars, box_vars>>

\* recovery_new that ends in an error.  "check": xdir_check fails, the object
\* is freed and NULL is returned.  "oom": calloc gives NULL; the diagnostic is
\* set and the function goes on to xdir_create(&r->wal_dir, ...), a write
\* through the null pointer: the process ends there, or the write and those
\* after it go through and r, which is NULL, is returned in the end
RecoveryNewFail(cause, fault) ==
    /\ r_state = "none"
    /\ wal_files = <<>>
    /\ ~crashed
    /\ fault => cause = "oom"
    /\ r_state' = "null"
    /\ crashed' = fault
    /\ UNCHANGED <<wal_vars, r_vclock, r_force, cursor, wal_dir_index, last,
                   emitted, hs_vars>>
    /\ UNCHANGED <<modules, mod_hash, mod_syms, dso, installs, frames, ret, diag>>
    /\ UNCHANGED box_vars

\* A fault that strikes one call of recovery_scan: "scan": xdir_scan fails;
\* "open": xdir_open_cursor fails on the last segment
ScanFaults == {"none", "scan", "open"}

\* recovery_scan: the clock after the rows from the k-th on were followed
RECURSIVE ScanRows(_, _, _)
ScanRows(v, rows, k) ==
    IF k > Len(rows) THEN v
    ELSE ScanRows(vclock_follow_xrow(v, rows[k]), rows, k + 1)

\* recovery_scan: its return value, the two clocks it fills in, and whether
\* it has come to open the last segment
recovery_scan(rv, fault) ==
    LET index == xdir_scan
        last_seg == index[Len(index)]
        end_vclock == SegVclock(last_seg)
    IN  IF fault = "scan"
        THEN [rc |-> -1, end_vclock |-> UnsetClock, gc_vclock |-> UnsetClock,
              opens |-> FALSE]
        ELSE IF Len(index) = 0 \/ vclock_compare(end_vclock, rv) < 0
        THEN [rc |-> 0, end_vclock |-> SetClock(rv), gc_vclock |-> SetClock(rv),
              opens |-> FALSE]
        ELSE IF fault = "open"
        THEN [rc |-> 0, end_vclock |-> SetClock(end_vclock),
              gc_vclock |-> SetClock(SegVclock(index[1])), opens |-> TRUE]
        ELSE [rc |-> 0,
              end_vclock |-> SetClock(ScanRows(end_vclock,
                                               wal_files[last_seg].rows, 1)),
              gc_vclock |-> SetClock(SegVclock(index[1])), opens |-> TRUE]

\* a variant that leaves the cursor as it is
recovery_close_log_keep(c) == c

\* recovery_close_log: the cursor after the call
recovery_close_log(c) == IF xlog_cursor_is_open(c) THEN xlog_cursor_close(c) ELSE c

\* a variant that takes a row equal to the clock for a new one
AlreadyApplied_strict(row, v) == row.lsn < vclock_get(v, row.replica_id)

\* a variant that skips nothing
AlreadyApplied_never(row, v) == FALSE

\* a variant that takes the row next to the clock for an applied one too
AlreadyApplied_next(row, v) == row.lsn <= vclock_get(v, row.replica_id) + 1

\* recover_xlog: the row was applied before
AlreadyApplied(row, v) == row.lsn <= vclock_get(v, row.replica_id)

\* a variant that stops one signature late
StopReached_after(stop, sig) == vclock_is_set(stop) /\ sig > vclock_sum(stop.v)

\* recover_xlog, recover_remaining_wals: the bound is reached at signature sig
StopReached(stop, sig) == vclock_is_set(stop) /\ sig >= vclock_sum(stop.v)

\* a variant that looks for a gap between segments only
GapOnOpen_between(state, meta, old, rv) ==
    /\ state # "NEW"
    /\ vclock_is_set(meta.prev_vclock)
    /\ vclock_compare(meta.prev_vclock.v, old.vclock) # 0

\* a variant that looks for a gap at the first segment only
GapOnOpen_first(state, meta, old, rv) ==
    state = "NEW" /\ vclock_compare(meta.vclock, rv) > 0

\* recovery_open_log: a gap is found on opening a segment with header `meta`,
\* the cursor having had state `state` and header `old`
GapOnOpen(state, meta, old, rv) ==
    \/ state = "NEW" /\ vclock_compare(meta.vclock, rv) > 0
    \/ /\ state # "NEW"
       /\ vclock_is_set(meta.prev_vclock)
       /\ vclock_compare(meta.prev_vclock.v, old.vclock) # 0

\* a variant that copies the segment's clock whenever the two differ
PromoteClock_differs(rv, v) == vclock_compare(rv, v) # 0

\* recovery_open_log: the recovery clock is promoted to the segment's
PromoteClock(rv, v) == vclock_compare(rv, v) < 0

\* a variant that takes no segment for read
EofSkip_never(c, v) == FALSE

\* a variant that takes every segment for read
EofSkip_always(c, v) == TRUE

\* recover_remaining_wals: the segment was read to its EOF marker before
EofSkip(c, v) ==
    xlog_cursor_is_eof(c) /\ vclock_sum(c.meta.vclock) >= vclock_sum(v)

\* a variant that compares the signatures only
FinalPositionGap_signature(stop, rv) ==
    vclock_is_set(stop) /\ vclock_sum(rv) # vclock_sum(stop.v)

\* recover_remaining_wals: the final position differs from the bound
FinalPositionGap(stop, rv) == vclock_is_set(stop) /\ vclock_compare(rv, stop.v) # 0

\* recover_remaining_wals: the segment to go on with when a cursor is open
\* (0: the one that matches the recovery clock)
CurrentWal(index, c) ==
    IF xlog_cursor_is_open(c) THEN vclockset_search(index, c.meta.vclock) ELSE 0

\* The state a call of recover_remaining_wals works on: the cursor, the
\* recovery clock, the rows emitted, the result (rc < 0: the call has failed),
\* the events counted for the fault plan, whether the fault has struck, the
\* values assigned to the recovery clock, in order, and the segments opened,
\* in order, each with the segment the cursor came from, the recovery clock
\* before and after and whether a gap was reported, the rows that
\* xstream_write has rejected, and the segments the on_close_log triggers were
\* run for, in order, and the signature the recovery clock had when each row
\* was passed to the stream and accepted, and the segments whose EOF marker
\* was read.
Activation(c, v, out) ==
    [cursor |-> c, vclock |-> v, emitted |-> out, rc |-> 0, n |-> 0,
     struck |-> FALSE, clocks |-> <<>>, opens |-> <<>>, rejected |-> {},
     closes |-> <<>>, sigs |-> <<>>, eofs |-> {}]

\* an assignment to r->vclock
SetVclock(st, v) == [st EXCEPT !.vclock = v, !.clocks = Append(@, v)]

\* a variant that leaves the clock where it was
FollowRow_none(st, row) == st

\* a variant that stops one short of the row
FollowRow_short(st, row) ==
    SetVclock(st, [st.vclock EXCEPT ![row.replica_id] = row.lsn - 1])

\* recover_xlog: the recovery clock follows the row
FollowRow(st, row) == SetVclock(st, vclock_follow_xrow(st.vclock, row))

Fail(st) == [st EXCEPT !.rc = -1]
Struck(st) == [st EXCEPT !.struck = TRUE]

\* a variant in which no trigger is run
RunTriggers_none(st, plan) == st

\* recovery_close_log: trigger_run(&r->on_close_log), after the cursor of
\* st was closed
RunTriggers(st, plan) ==
    [Count(st, plan, "trigger") EXCEPT !.closes = Append(@, st.cursor.seg)]

\* recovery_open_log
recovery_open_log(st, clock, force, plan) ==
    LET meta == st.cursor.meta
        state == st.cursor.state
        was_open == xlog_cursor_is_open(st.cursor)
        closed == [st EXCEPT !.cursor = recovery_close_log(st.cursor)]
        t == IF was_open THEN RunTriggers(closed, plan) ELSE closed
        o == Count(t, plan, "open")
        new == [vclock |-> wal_files[clock].vclock,
                prev_vclock |-> wal_files[clock].prev_vclock]
        promoted == IF PromoteClock(st.vclock, new.vclock)
                    THEN SetVclock(o, new.vclock) ELSE o
        opened == [promoted EXCEPT
                      !.cursor = [state |-> "ACTIVE", seg |-> clock,
                                  pos |-> 0, meta |-> new],
                      !.opens = Append(@,
                          [seg |-> clock, from |-> st.cursor.seg,
                           first |-> state = "NEW", clock |-> st.vclock,
                           after |-> promoted.vclock,
                           gap |-> GapOnOpen(state, new, meta, st.vclock)])]
    IN  IF was_open /\ Strikes(closed, plan, "trigger") THEN Fail(Struck(t))
        ELSE IF Strikes(t, plan, "open") THEN Fail(Struck(o))
        ELSE IF ~wal_files[clock].present THEN Fail(o)
        ELSE IF GapOnOpen(state, new, meta, st.vclock) /\ ~force THEN Fail(opened)
        ELSE opened

\* recover_xlog; rc is 1 when no more rows can be read, 0 when the bound stopped
\* the reading, -1 on an error
RECURSIVE recover_xlog(_, _, _, _)
recover_xlog(st, stop, force, plan) ==
    LET c == st.cursor
        file == wal_files[c.seg]
        row == file.rows[c.pos + 1]
        \* xlog_cursor_next has taken the row
        read == [st EXCEPT !.cursor.pos = @ + 1]
        got == Count(read, plan, "read")
        followed == FollowRow(got, row)
        tried == Count(followed, plan, "stream")
        \* xstream_write has returned an error
        refused == [Struck(tried) EXCEPT !.rejected = @ \cup
                       {[replica_id |-> row.replica_id, lsn |-> row.lsn,
                         seg |-> c.seg, pos |-> c.pos + 1]}]
        written == [tried EXCEPT !.sigs = Append(@, vclock_sum(st.vclock)),
                                 !.emitted = Append(@,
                        [replica_id |-> row.replica_id, lsn |-> row.lsn,
                         seg |-> c.seg, pos |-> c.pos + 1,
                         pre |-> vclock_get(st.vclock, row.replica_id)])]
    IN  IF c.state = "EOF" THEN [st EXCEPT !.rc = 1]
        ELSE IF c.pos >= Len(file.rows)
        THEN [st EXCEPT !.rc = 1,
                        !.cursor.state = IF file.eof THEN "EOF" ELSE @,
                        !.eofs = IF file.eof THEN @ \cup {c.seg} ELSE @]
        ELSE IF Strikes(read, plan, "read")
        THEN IF force THEN recover_xlog(Struck(got), stop, force, plan)
             ELSE Fail(Struck(got))
        ELSE IF StopReached(stop, vclock_sum(st.vclock)) THEN [got EXCEPT !.rc = 0]
        ELSE IF AlreadyApplied(row, st.vclock)
        THEN recover_xlog(got, stop, force, plan)
        ELSE IF Strikes(followed, plan, "stream")
        THEN IF force THEN recover_xlog(refused, stop, force, plan)
             ELSE Fail(refused)
        ELSE recover_xlog(written, stop, force, plan)

\* recover_remaining_wals: the loop over the segments, from `clock`
RECURSIVE SegmentLoop(_, _, _, _, _, _)
SegmentLoop(st, index, clock, stop, force, plan) ==
    IF clock = 0 \/ StopReached(stop, vclock_sum(SegVclock(clock))) THEN st
    ELSE IF EofSkip(st.cursor, SegVclock(clock))
    THEN SegmentLoop(st, index, vclockset_next(index, clock), stop, force, plan)
    ELSE LET o == recovery_open_log(st, clock, force, plan)
             x == recover_xlog(o, stop, force, plan)
         IN  IF o.rc < 0 THEN o
             ELSE IF x.rc < 0 THEN x
             ELSE SegmentLoop(x, index, vclockset_next(index, clock), stop,
                              force, plan)

\* recover_remaining_wals: after the loop
AfterLoop(st, stop, plan) ==
    LET eof == xlog_cursor_is_eof(st.cursor)
        was_open == xlog_cursor_is_open(st.cursor)
        closed == IF eof THEN [st EXCEPT !.cursor = recovery_close_log(st.cursor)]
                  ELSE st
        t == IF eof /\ was_open THEN RunTriggers(closed, plan) ELSE closed
    IN  IF eof /\ was_open /\ Strikes(closed, plan, "trigger") THEN Fail(Struck(t))
        ELSE IF FinalPositionGap(stop, st.vclock) THEN Fail(t)
        ELSE [t EXCEPT !.rc = 0]

\* recover_remaining_wals on the index `index`
recover_remaining_wals(st, index, stop, force, plan) ==
    LET found == CurrentWal(index, st.cursor)
        x == recover_xlog(st, stop, force, plan)
        looped == IF found # 0
                  THEN IF x.rc < 0 THEN x
                       ELSE SegmentLoop(x, index, vclockset_next(index, found),
                                        stop, force, plan)
                  ELSE SegmentLoop(st, index, vclockset_match(index, st.vclock),
                                   stop, force, plan)
    IN  IF looped.rc < 0 THEN looped ELSE AfterLoop(looped, stop, plan)

\* a call of recover_remaining_wals(stop, scan_dir) on the recovery object
ReplayResult(stop, scan_dir, plan) ==
    LET st == Activation(cursor, r_vclock, emitted)
        index == IF scan_dir THEN xdir_scan ELSE wal_dir_index
    IN  IF scan_dir /\ Strikes(st, plan, "scan")
        THEN [res |-> Fail(Struck(st)), index |-> wal_dir_index]
        ELSE [res |-> recover_remaining_wals(st, index, stop, r_force, plan),
              index |-> index]

\* what the call leaves in the recovery object
Replayed(stop, out) ==
    /\ wal_dir_index' = out.index
    /\ cursor' = out.res.cursor
    /\ r_vclock' = out.res.vclock
    /\ emitted' = out.res.emitted
    /\ last' = [rejected |-> last.rejected \cup out.res.rejected,
                eofs |-> last.eofs \cup out.res.eofs,
                stop |-> IF out.res.rc = 0 THEN stop ELSE UnsetClock,
                rc |-> out.res.rc]

\* a direct call of recover_remaining_wals (initial recovery, the relay); the
\* caller gives the recovery up after an error
RecoverRemainingWals(stop, scan_dir, plan) ==
    /\ r_state = "ready"
    /\ hs_pc = "none"
    /\ \E out \in {ReplayResult(stop, scan_dir, plan)} :
           /\ plan.kind # "none" => out.res.struck
           /\ Replayed(stop, out)
           /\ r_state' = IF out.res.rc = 0 THEN r_state ELSE "failed"
    /\ UNCHANGED <<wal_vars, r_force, hs_vars>>
    /\ UNCHANGED <<mod_vars, box_vars>>

\* ------------------------------------------------------------- hot standby

\* recovery_follow_local: the fiber is created and started
RecoveryFollowLocal ==
    /\ r_state = "ready"
    /\ hs_pc = "none"
    /\ ~watcher
    /\ watcher' = TRUE
    /\ hs_pc' = "top"
    /\ hs_scan_dir' = TRUE
    /\ ws_events' = {}
    /\ ws_file' = 0
    /\ cancelled' = FALSE
    /\ UNCHANGED <<wal_vars, rec_vars>>
    /\ UNCHANGED <<mod_vars, box_vars>>

\* a variant that looks at the progress only
ReplayAgain_progress(start, end, c) == end > start

\* hot_standby_f: the inner loop goes on
ReplayAgain(start, end, c) == end > start /\ ~xlog_cursor_is_open(c)

\* a variant that scans the directory after every event
ScanDirNext_any(timed_out, events) == timed_out \/ events # {}

\* hot_standby_f: does the next outer pass scan the directory
ScanDirNext(timed_out, events) == timed_out \/ "ROTATE" \in events

\* wal_subscr_set_log_path: the file watched afterwards
SetLogPath(c) == IF xlog_cursor_is_open(c) THEN c.seg ELSE 0

\* a variant that leaves the loop without wal_subscr_destroy
HsCancelled_keep ==
    /\ hs_pc = "top"
    /\ cancelled
    /\ hs_pc' = "dead"
    /\ UNCHANGED <<wal_vars, rec_vars, cancelled, watcher, ws_file, ws_events,
                   hs_scan_dir>>
    /\ UNCHANGED <<mod_vars, box_vars>>

\* hot_standby_f: the cancelled fiber leaves the outer loop
HsCancelled ==
    /\ hs_pc = "top"
    /\ cancelled
    /\ hs_pc' = "dead"
    /\ ws_file' = 0
    /\ ws_events' = {}
    /\ hs_scan_dir' = FALSE
    /\ UNCHANGED <<wal_vars, rec_vars, cancelled, watcher>>
    /\ UNCHANGED <<mod_vars, box_vars>>

\* hot_standby_f: a pass of the inner loop
HsReplay(plan) ==
    /\ \/ hs_pc = "top" /\ ~cancelled
       \/ hs_pc = "again"
    /\ \E out \in {ReplayResult(UnsetClock, hs_scan_dir, plan)} :
       LET start == vclock_sum(r_vclock)
           end == vclock_sum(out.res.vclock)
       IN  /\ plan.kind # "none" => out.res.struck
           /\ Replayed(UnsetClock, out)
           /\ IF out.res.rc # 0
              THEN /\ hs_pc' = "dead"
                   /\ r_state' = "failed"
                   /\ ws_file' = 0
                   /\ ws_events' = {}
                   /\ hs_scan_dir' = FALSE
              ELSE /\ hs_pc' = IF ReplayAgain(start, end, out.res.cursor)
                               THEN "again" ELSE "after"
                   /\ UNCHANGED <<r_state, ws_file, ws_events, hs_scan_dir>>
    /\ UNCHANGED <<wal_vars, r_force, cancelled, watcher>>
    /\ UNCHANGED <<mod_vars, box_vars>>

\* hot_standby_f: after the inner loop, up to the wait
HsAfter ==
    /\ hs_pc = "after"
    /\ ws_file' = SetLogPath(cursor)
    /\ IF ws_events = {}
       THEN /\ hs_pc' = "wait"
            /\ hs_scan_dir' = FALSE
            /\ UNCHANGED ws_events
       ELSE /\ hs_pc' = "top"
            /\ hs_scan_dir' = ScanDirNext(FALSE, ws_events)
            /\ ws_events' = {}
    /\ UNCHANGED <<wal_vars, rec_vars, cancelled, watcher>>
    /\ UNCHANGED <<mod_vars, box_vars>>

\* hot_standby_f: the fiber leaves fiber_yield_timeout, on a timeout, an event
\* or a cancel
HsWake(timed_out) ==
    /\ hs_pc = "wait"
    /\ timed_out \/ ws_events # {} \/ cancelled
    /\ hs_scan_dir' = ScanDirNext(timed_out, ws_events)
    /\ ws_events' = {}
    /\ hs_pc' = "top"
    /\ UNCHANGED <<wal_vars, rec_vars, ws_file, cancelled, watcher>>
    /\ UNCHANGED <<mod_vars, box_vars>>

\* recovery_stop_local: the fiber is cancelled; the caller then joins it
RecoveryStopLocal ==
    /\ watcher
    /\ watcher' = FALSE
    /\ cancelled' = TRUE
    /\ UNCHANGED <<wal_vars, rec_vars, hs_pc, hs_scan_dir, ws_events, ws_file>>
    /\ UNCHANGED <<mod_vars, box_vars>>

\* recovery_stop_local: fiber_join returns
RecoveryStopJoin ==
    /\ ~watcher
    /\ hs_pc = "dead"
    /\ hs_pc' = "none"
    /\ UNCHANGED <<wal_vars, rec_vars, hs_scan_dir, ws_events, ws_file,
                   cancelled, watcher>>
    /\ UNCHANGED <<mod_vars, box_vars>>

\* recovery_finalize
RecoveryFinalize ==
    /\ r_state = "ready"
    /\ hs_pc = "none"
    /\ cursor' = recovery_close_log(cursor)
    /\ r_state' = "finalized"
    /\ UNCHANGED <<wal_vars, r_vclock, r_force, wal_dir_index, last, emitted,
                   hs_vars>>
    /\ UNCHANGED <<mod_vars, box_vars>>

\* recovery_delete: the object is freed, its fields are no more
RecoveryDelete ==
    /\ r_state \in {"ready", "failed", "finalized"}
    /\ hs_pc = "none"
    /\ ~watcher
    /\ r_state' = "deleted"
    /\ cursor' = NewCursor
    /\ r_vclock' = ZeroClock
    /\ r_force' = FALSE
    /\ wal_dir_index' = <<>>
    /\ UNCHANGED <<wal_vars, last, emitted, hs_vars>>
    /\ UNCHANGED <<mod_vars, box_vars>>

\* ============================================================ module cache

\* the symbols a shared library may export, the names functions are declared
\* with, and the packages these names lie in
F == <<"f">>
G == <<"g">>
Symbols == {F, G}
NameTable == << <<"m", ".", "f">>, <<"m", ".", "g">>, <<"f">>, <<"m", ".", "f">> >>

\* struct module_sym: name (the b-th binding of the model)
SymName(b) == NameTable[((b - 1) % Len(NameTable)) + 1]

Syms == 1..NumSyms
Tasks == 1..MaxTasks

\* parse_func_name: the package is what precedes the last dot, the symbol what
\* follows it; a name without a dot is package and symbol at once
parse_func_name(str) ==
    LET dots == {k \in 1..Len(str) : str[k] = "."}
        package_end == CHOOSE k \in dots : \A j \in dots : j <= k
    IN  IF dots # {}
        THEN [package |-> SubSeq(str, 1, package_end - 1),
              sym |-> SubSeq(str, package_end + 1, Len(str))]
        ELSE [package |-> str, sym |-> str]

Packages == {parse_func_name(SymName(b)).package : b \in Syms}

\* no library file under the package's name
NotFound == {<<"?">>}

\* a null struct module_sym.addr, and the address of symbol `sym` in the
\* library that module m holds
NullAddr == [module |-> 0, sym |-> <<>>]
Addr(m, sym) == [module |-> m, sym |-> sym]

\* the heap the operations work on
Heap == [modules |-> modules, mod_hash |-> mod_hash, mod_syms |-> mod_syms,
         crashed |-> crashed]

Crash(h) == [h EXCEPT !.crashed = TRUE]

\* rlist_del, rlist_add, rlist_empty on a list given first entry first
Remove(list, b) == SelectSeq(list, LAMBDA x : x # b)
rlist_add(list, b) == <<b>> \o list
rlist_empty(list) == list = <<>>

\* module_cache_find
module_cache_find(h, package) == h.mod_hash[package]

\* module_cache_add
module_cache_add(h, m) == [h EXCEPT !.mod_hash[h.modules[m].package] = m]

\* module_cache_del
module_cache_del(h, package) == [h EXCEPT !.mod_hash[package] = 0]

\* module_find: the library file exists
module_find(package) == dso[package] # NotFound

\* module_load: the heap with the new module in it, numbered Len(modules) + 1
module_load(h, package) ==
    [h EXCEPT !.modules = Append(@, [package |-> package, loaded |-> TRUE,
                                     mod_sym_head |-> <<>>, calls |-> 0,
                                     exports |-> dso[package]])]

\* module_delete; to delete what was deleted before ends the process
module_delete(h, m) ==
    IF h.modules[m].loaded THEN [h EXCEPT !.modules[m].loaded = FALSE]
    ELSE Crash(h)

\* a variant that looks at the calls only
Unused_calls(mod) == mod.calls = 0

\* a variant that looks at the list only
Unused_list(mod) == rlist_empty(mod.mod_sym_head)

\* module_gc: the module is unused
Unused(mod) == rlist_empty(mod.mod_sym_head) /\ mod.calls = 0

\* module_gc
module_gc(h, m) == IF Unused(h.modules[m]) THEN module_delete(h, m) ELSE h

\* module_sym: dlsym in the library the module holds
module_sym(h, m, sym) ==
    IF sym \in h.modules[m].exports THEN Addr(m, sym) ELSE NullAddr

\* the binding refers to a module that module_delete has freed
Dangling(h, b) ==
    h.mod_syms[b].module # 0 /\ ~h.modules[h.mod_syms[b].module].loaded

\* module_sym_load from the lookup of the symbol on, the module being m
Bind(h, b, m) ==
    LET addr == module_sym(h, m, parse_func_name(SymName(b)).sym)
    IN  IF addr = NullAddr THEN [h |-> h, rc |-> -1]
        ELSE [h |-> [h EXCEPT !.mod_syms[b] = [addr |-> addr, module |-> m],
                              !.modules[m].mod_sym_head = rlist_add(@, b)],
              rc |-> 0]

\* module_sym_load; oom: the insert into the cache fails
module_sym_load(h, b, oom) ==
    LET d == parse_func_name(SymName(b))
        module == module_cache_find(h, d.package)
        loaded == module_load(h, d.package)
        new == Len(loaded.modules)
    IN  IF module # 0 THEN Bind(h, b, module)
        ELSE IF ~module_find(d.package) THEN [h |-> h, rc |-> -1]
        ELSE IF oom THEN [h |-> module_delete(loaded, new), rc |-> -1]
        ELSE Bind(module_cache_add(loaded, new), b, new)

\* module_sym_unload
module_sym_unload(h, b) ==
    LET m == h.mod_syms[b].module
        deleted == [h EXCEPT !.modules[m].mod_sym_head = Remove(@, b)]
        uncached == IF rlist_empty(deleted.modules[m].mod_sym_head)
                    THEN module_cache_del(deleted,
                                          parse_func_name(SymName(b)).package)
                    ELSE deleted
        collected == module_gc(uncached, m)
    IN  IF m = 0 THEN h
        ELSE [collected EXCEPT !.mod_syms[b] = [addr |-> NullAddr, module |-> 0]]

\* a variant that moves no binding
MoveLoop_stay(h, old, new, rest) == [h |-> h, failed |-> 0]

\* module_reload, the loop over the bindings of `old`: `rest` are the entries
\* not visited yet; failed is the binding whose symbol `new` lacks (0: none)
RECURSIVE MoveLoop(_, _, _, _)
MoveLoop(h, old, new, rest) ==
    IF rest = <<>> THEN [h |-> h, failed |-> 0]
    ELSE LET mod_sym == Head(rest)
             addr == module_sym(h, new, parse_func_name(SymName(mod_sym)).sym)
         IN  IF addr = NullAddr
             THEN [h |-> [h EXCEPT !.mod_syms[mod_sym].addr = NullAddr],
                   failed |-> mod_sym]
             ELSE MoveLoop([h EXCEPT !.mod_syms[mod_sym] =
                                         [addr |-> addr, module |-> new],
                                     !.modules[old].mod_sym_head = Remove(@, mod_sym),
                                     !.modules[new].mod_sym_head = rlist_add(@, mod_sym)],
                           old, new, Tail(rest))

\* module_reload, the loop after the label restore: mod_sym is given back to
\* `old`, again while it is not the first entry of the list of `old`
RECURSIVE Restore(_, _, _)
Restore(h, old, mod_sym) ==
    LET addr == module_sym(h, old, parse_func_name(SymName(mod_sym)).sym)
        moved == [h EXCEPT !.mod_syms[mod_sym] = [addr |-> addr, module |-> old],
                           !.modules[old].mod_sym_head =
                               rlist_add(Remove(@, mod_sym), mod_sym)]
    IN  IF addr = NullAddr THEN Crash(h)
        ELSE IF mod_sym # Head(moved.modules[old].mod_sym_head)
        THEN Restore(moved, old, mod_sym)
        ELSE moved

\* module_reload, from the label restore to the return; with assertions
\* compiled in the process aborts when `new` still has bindings
Restored(h, old, new, mod_sym, assertions) ==
    LET r == Restore(h, old, mod_sym)
    IN  IF r.crashed THEN r
        ELSE IF assertions /\ ~rlist_empty(r.modules[new].mod_sym_head) THEN Crash(r)
        ELSE module_delete(r, new)

\* module_reload of a cached package with a library file to load; oom: the
\* insert into the cache fails, and the loop after restore starts from the
\* list head taken for a binding, which ends the process
module_reload(h, package, oom, assertions) ==
    LET old == module_cache_find(h, package)
        loaded == module_load(h, package)
        new == Len(loaded.modules)
        loop == MoveLoop(loaded, old, new, h.modules[old].mod_sym_head)
        dropped == module_cache_del(loop.h, package)
    IN  IF loop.failed # 0
        THEN [h |-> Restored(loop.h, old, new, loop.failed, assertions),
              rc |-> -1, module |-> 0]
        ELSE IF oom THEN [h |-> Crash(dropped), rc |-> -1, module |-> 0]
        ELSE [h |-> module_gc(module_cache_add(dropped, new), old),
              rc |-> 0, module |-> new]

\* ------------------------------------------------- operations on the cache

\* a variant that leaves the counter alone
Unpin_none(h, m) == h

\* module_sym_call: ++module->calls before the function is entered,
\* --module->calls after it has returned
Pin(h, m) == [h EXCEPT !.modules[m].calls = @ + 1]
Unpin(h, m) == [h EXCEPT !.modules[m].calls = @ - 1]

\* what an operation leaves in the heap
Store(h) ==
    /\ modules' = h.modules
    /\ mod_hash' = h.mod_hash
    /\ mod_syms' = h.mod_syms
    /\ crashed' = h.crashed

Return(op, b, rc, h) ==
    ret' = [op |-> op, package |-> parse_func_name(SymName(b)).package,
            rc |-> rc, module |-> IF rc = 0 THEN h.mod_syms[b].module ELSE 0]

\* the operation on binding b has a library to load, which takes a module
WouldLoad(b) ==
    LET package == parse_func_name(SymName(b)).package
    IN  module_cache_find(Heap, package) = 0 /\ module_find(package)

\* a library file is replaced, or removed
Install(package, exports) ==
    /\ ~crashed
    /\ installs < MaxInstalls
    /\ dso[package] # exports
    /\ dso' = [dso EXCEPT ![package] = exports]
    /\ installs' = installs + 1
    /\ UNCHANGED <<modules, mod_hash, mod_syms, frames, crashed, ret, diag,
                   rvars, box_vars>>

\* module_sym_load, called for a binding that is not bound
ModuleSymLoad(b, oom) ==
    /\ ~crashed
    /\ mod_syms[b].addr = NullAddr
    /\ WouldLoad(b) => Len(modules) < MaxModules
    /\ oom => WouldLoad(b)
    /\ \E r \in {module_sym_load(Heap, b, oom)} :
          Store(r.h) /\ Return("load", b, r.rc, r.h)
    /\ UNCHANGED <<dso, installs, frames, diag, rvars, box_vars>>

\* module_sym_unload; fault: the binding refers to freed memory and the access
\* ends the process
ModuleSymUnload(b, fault) ==
    /\ ~crashed
    /\ fault => Dangling(Heap, b)
    /\ \E h \in {IF fault THEN Crash(Heap) ELSE module_sym_unload(Heap, b)} :
          Store(h) /\ Return("unload", b, 0, h)
    /\ UNCHANGED <<dso, installs, frames, diag, rvars, box_vars>>

\* module_sym_call up to the entry into the function, which yields
CallBegin(t, b, oom, fault) ==
    /\ ~crashed
    /\ frames[t] = 0
    /\ LET unbound == mod_syms[b].addr = NullAddr
       IN  /\ (unbound /\ WouldLoad(b)) => Len(modules) < MaxModules
           /\ oom => (unbound /\ WouldLoad(b))
           /\ \E r \in {IF unbound THEN module_sym_load(Heap, b, oom)
                        ELSE [h |-> Heap, rc |-> 0]} :
                LET module == r.h.mod_syms[b].module
                IN  /\ fault => (r.rc = 0 /\ Dangling(r.h, b))
                    /\ IF r.rc # 0
                       THEN Store(r.h) /\ UNCHANGED frames
                       ELSE IF fault
                       THEN Store(Crash(r.h)) /\ UNCHANGED frames
                       ELSE /\ Store(Pin(r.h, module))
                            /\ frames' = [frames EXCEPT ![t] = module]
                    /\ Return("call", b, r.rc, r.h)
                    /\ diag' = IF r.rc # 0 THEN [diag EXCEPT ![t] = "set"]
                               ELSE diag
    /\ UNCHANGED <<dso, installs, rvars, box_vars>>

\* a variant that sets the generic error after every failure
ReportedDiag_always(rc, last_error) ==
    IF rc # 0 THEN "unknown" ELSE last_error

\* module_sym_call: the last error of the fiber when the call returns, from
\* what the function returned and the last error found after it ("callee":
\* the one the function has set, "earlier": one that was there before the
\* call, "unknown": the generic one set here)
ReportedDiag(rc, last_error) ==
    IF rc # 0 /\ last_error = "none" THEN "unknown" ELSE last_error

\* diag_last_error(&fiber()->diag) after the function has returned; said:
\* the function has set a diagnostic
diag_last_error(t, said) ==
    IF said THEN "callee"
    ELSE IF diag[t] = "none" THEN "none" ELSE "earlier"

\* module_sym_call from the return of the function on; rc is what the
\* function returned, said whether it has set a diagnostic
CallEnd(t, rc, said) ==
    /\ ~crashed
    /\ frames[t] # 0
    /\ said => rc # 0
    /\ LET module == frames[t]
       IN  Store(module_gc(Unpin(Heap, module), module))
    /\ frames' = [frames EXCEPT ![t] = 0]
    /\ diag' = [diag EXCEPT ![t] =
                   IF ReportedDiag(rc, diag_last_error(t, said)) = "none"
                   THEN "none" ELSE "set"]
    /\ ret' = [op |-> "return", package |-> modules[frames[t]].package,
               rc |-> IF rc # 0 THEN -1 ELSE 0, module |-> frames[t],
               port |-> IF rc # 0 THEN "destroyed" ELSE "returned"]
    /\ UNCHANGED <<dso, installs, rvars, box_vars>>

\* a variant that looks at the return code only
lcbox_module_reload_rc(rc, module) == IF rc = 0 THEN "true" ELSE "error"

\* lcbox_module_reload: what cbox.module.reload gives the script, from the
\* return code and the out parameter of module_reload
lcbox_module_reload(rc, module) ==
    IF rc # 0 THEN "error"
    ELSE IF module # 0 THEN "true"
    ELSE "NoSuchModule"

\* module_reload, as called by cbox.module.reload
ModuleReload(package, oom, assertions) ==
    /\ ~crashed
    /\ LET old == module_cache_find(Heap, package)
           load == old # 0 /\ module_find(package)
       IN  /\ load => Len(modules) < MaxModules
           /\ oom => load
           /\ \E r \in {IF old = 0 THEN [h |-> Heap, rc |-> 0, module |-> 0]
                        ELSE IF ~load THEN [h |-> Heap, rc |-> -1, module |-> 0]
                        ELSE module_reload(Heap, package, oom, assertions)} :
                /\ Store(r.h)
                /\ ret' = [op |-> "reload", package |-> package, rc |-> r.rc,
                           module |-> r.module,
                           lua |-> lcbox_module_reload(r.rc, r.module)]
    /\ UNCHANGED <<dso, installs, frames, diag, rvars, box_vars>>

\* ============================================= functions and their callers

Privs == {"X", "U"}
Users == 1..NumUsers
Funcs == 1..NumFuncs

NoCredentials == [set |-> FALSE, cred |-> 0]
Credentials(c) == [set |-> TRUE, cred |-> c]

\* the uid of a struct credentials
UidOf(c) == IF c = 0 THEN session_uid ELSE funcs[c].uid

\* a variant that takes everybody for the owner
func_access_check_owner(uid, func) ==
    LET access == Privs \ entity_access[uid]
        func_access == access \ universal_access[uid]
    IN  IF Privs \subseteq universal_access[uid] THEN 0
        ELSE IF "U" \in func_access THEN -1
        ELSE 0

\* func_access_check for the credentials of user uid
func_access_check(uid, func) ==
    LET access == Privs \ entity_access[uid]
        func_access == access \ universal_access[uid]
    IN  IF Privs \subseteq universal_access[uid] THEN 0
        ELSE IF \/ "U" \in func_access
                \/ /\ funcs[func].uid # uid
                   /\ func_access \ funcs[func].access[uid] # {}
        THEN -1
        ELSE 0

\* a variant that leaves the fiber with the credentials of the callee
RestoreUser_keep(orig_credentials, current) == current

\* func_call: the credentials of the fiber after the call
RestoreUser(orig_credentials, current) ==
    IF orig_credentials.set THEN orig_credentials.cred ELSE current

\* the session of the fiber is created for user uid
SessionCreate(uid) ==
    /\ session_uid = 0
    /\ session_uid' = uid
    /\ UNCHANGED <<funcs, universal_access, entity_access, grants, effective,
                   fstack, fret>>
    /\ UNCHANGED <<rvars, mod_vars, cbox_vars>>

\* func_new: nobody has access to the function but the owner
FuncNew(func, uid, setuid) ==
    /\ ~funcs[func].exists
    /\ funcs' = [funcs EXCEPT ![func] =
                    [exists |-> TRUE, uid |-> uid, setuid |-> setuid,
                     owner_credentials |-> "empty",
                     access |-> [u \in Users |-> {}]]]
    /\ UNCHANGED <<universal_access, entity_access, grants, session_uid,
                   effective, fstack, fret>>
    /\ UNCHANGED <<rvars, mod_vars, cbox_vars>>

\* a privilege is granted: on the universe, on all functions, on one function
GrantUniversal(uid, priv) ==
    /\ grants < MaxGrants
    /\ priv \notin universal_access[uid]
    /\ universal_access' = [universal_access EXCEPT ![uid] = @ \cup {priv}]
    /\ grants' = grants + 1
    /\ UNCHANGED <<funcs, entity_access, session_uid, effective, fstack, fret>>
    /\ UNCHANGED <<rvars, mod_vars, cbox_vars>>

GrantEntity(uid, priv) ==
    /\ grants < MaxGrants
    /\ priv \notin entity_access[uid]
    /\ entity_access' = [entity_access EXCEPT ![uid] = @ \cup {priv}]
    /\ grants' = grants + 1
    /\ UNCHANGED <<funcs, universal_access, session_uid, effective, fstack, fret>>
    /\ UNCHANGED <<rvars, mod_vars, cbox_vars>>

GrantFunc(func, uid, priv) ==
    /\ grants < MaxGrants
    /\ funcs[func].exists
    /\ priv \notin funcs[func].access[uid]
    /\ funcs' = [funcs EXCEPT ![func].access[uid] = @ \cup {priv}]
    /\ grants' = grants + 1
    /\ UNCHANGED <<universal_access, entity_access, session_uid, effective,
                   fstack, fret>>
    /\ UNCHANGED <<rvars, mod_vars, cbox_vars>>

\* func_call up to the call of the function; found: user_find gives the owner
FuncCall(func, found) ==
    /\ session_uid # 0
    /\ funcs[func].exists
    /\ Len(fstack) < MaxDepth
    /\ LET denied == func_access_check(UidOf(effective), func) # 0
           fill == funcs[func].setuid /\ funcs[func].owner_credentials = "empty"
           orig_credentials == IF funcs[func].setuid THEN Credentials(effective)
                               ELSE NoCredentials
       IN  /\ ~found => (~denied /\ fill)
           /\ IF denied
              THEN /\ fret' = [func |-> func, rc |-> -1, at |-> "access"]
                   /\ UNCHANGED <<funcs, effective, fstack>>
              ELSE IF fill /\ ~found
              THEN /\ fret' = [func |-> func, rc |-> -1, at |-> "owner"]
                   /\ UNCHANGED <<funcs, effective, fstack>>
              ELSE /\ funcs' = IF fill
                               THEN [funcs EXCEPT ![func].owner_credentials = "filled"]
                               ELSE funcs
                   /\ effective' = IF funcs[func].setuid THEN func ELSE effective
                   /\ fstack' = <<[func |-> func, orig |-> orig_credentials,
                                   entered |-> effective]>> \o fstack
                   /\ UNCHANGED fret
    /\ UNCHANGED <<universal_access, entity_access, grants, session_uid>>
    /\ UNCHANGED <<rvars, mod_vars, cbox_vars>>

\* func_call from the return of the function on
FuncReturn(rc) ==
    /\ fstack # <<>>
    /\ effective' = RestoreUser(Head(fstack).orig, effective)
    /\ fstack' = Tail(fstack)
    /\ fret' = [func |-> Head(fstack).func, rc |-> rc, at |-> "return"]
    /\ UNCHANGED <<funcs, universal_access, entity_access, grants, session_uid>>
    /\ UNCHANGED <<rvars, mod_vars, cbox_vars>>

\* ======================================================= cbox functions

Handles == 1..MaxHandles

\* the struct cbox_func that can be allocated, each with the binding it
\* holds as its mod_sym, and the names they are loaded by
CboxFuncs == 1..NumCboxFuncs
Names == {SymName(cf) : cf \in CboxFuncs}

\* the least member of a set of numbers that is not empty
Least(S) == CHOOSE x \in S : \A y \in S : x <= y

\* cbox_func_find: the node of the tree with the name (0: none)
cbox_func_find(name) ==
    LET nodes == {cf \in func_rb_root : SymName(cf) = name}
    IN  IF nodes = {} THEN 0 ELSE Least(nodes)

\* the tree and the counters
Tree == [ref |-> cf_ref, root |-> func_rb_root]

\* a variant that leaves the node in the tree
cbox_func_unref_stay(c, cf) == [c EXCEPT !.ref[cf] = @ - 1]

\* cbox_func_unref
cbox_func_unref(c, cf) ==
    [c EXCEPT !.ref[cf] = @ - 1,
              !.root = IF c.ref[cf] = 1 THEN @ \ {cf} ELSE @]

\* cbox_func_ref
cbox_func_ref(c, cf) ==
    [c EXCEPT !.ref[cf] = @ + 1,
              !.root = IF c.ref[cf] = 0 THEN @ \cup {cf} ELSE @]

\* a variant that frees the object whatever its counter is
Releasable_always(ref) == TRUE

\* lcbox_func_gc: the object is freed
Releasable(ref) == ref = 0

\* cbox.func.load; oom: cbox_func_new cannot allocate
LcboxFuncLoad(name, oom) ==
    /\ ~crashed
    /\ LET found == cbox_func_find(name)
           fresh == {cf \in CboxFuncs :
                        cf_state[cf] = "none" /\ SymName(cf) = name}
           free == {h \in Handles : handles[h] = 0}
       IN  /\ free # {}
           /\ found = 0 => fresh # {}
           /\ oom => found = 0
           /\ LET cf == IF found # 0 THEN found ELSE Least(fresh)
                  c == cbox_func_ref(Tree, cf)
              IN  /\ cf_ref[cf] < MaxRef
                  /\ IF oom
                     THEN /\ cbox_ret' = [op |-> "load", name |-> name,
                                          rc |-> -1, cf |-> 0]
                          /\ UNCHANGED <<cf_state, cf_ref, func_rb_root, handles>>
                     ELSE /\ cf_state' = [cf_state EXCEPT ![cf] = "live"]
                          /\ cf_ref' = c.ref
                          /\ func_rb_root' = c.root
                          /\ handles' = [handles EXCEPT ![Least(free)] = cf]
                          /\ cbox_ret' = [op |-> "load", name |-> name,
                                          rc |-> 0, cf |-> cf]
    /\ UNCHANGED <<rvars, mod_vars, func_vars>>

\* cbox.func.unload
LcboxFuncUnload(name) ==
    /\ ~crashed
    /\ LET cf == cbox_func_find(name)
           c == cbox_func_unref(Tree, cf)
       IN  IF cf = 0
           THEN /\ cbox_ret' = [op |-> "unload", name |-> name, rc |-> -1,
                                cf |-> 0]
                /\ UNCHANGED <<cf_ref, func_rb_root>>
           ELSE /\ cf_ref' = c.ref
                /\ func_rb_root' = c.root
                /\ cbox_ret' = [op |-> "unload", name |-> name, rc |-> 0,
                                cf |-> cf]
    /\ UNCHANGED <<cf_state, handles>>
    /\ UNCHANGED <<rvars, mod_vars, func_vars>>

\* lcbox_func_gc: Lua collects the object h; when the struct cbox_func it
\* wraps was freed before, the read of its counter is a read of freed
\* memory: the process ends there, or the read gives a value other than 0
\* and nothing is done, or it gives 0 and the object is freed again, which
\* ends the process as well
LcboxFuncGc(h, fault) ==
    /\ ~crashed
    /\ handles[h] # 0
    /\ fault => cf_state[handles[h]] = "freed"
    /\ LET cf == handles[h]
       IN  /\ crashed' = fault
           /\ cf_state' = IF cf_state[cf] = "live" /\ Releasable(cf_ref[cf])
                          THEN [cf_state EXCEPT ![cf] = "freed"]
                          ELSE cf_state
           /\ cbox_ret' = [op |-> "gc", name |-> SymName(cf), rc |-> 0,
                           cf |-> cf]
    /\ handles' = [handles EXCEPT ![h] = 0]
    /\ UNCHANGED <<cf_ref, func_rb_root>>
    /\ UNCHANGED <<modules, mod_hash, mod_syms, dso, installs, frames, ret, diag>>
    /\ UNCHANGED <<rvars, func_vars>>

\* lcbox_func_call up to the entry into the function; the object h wraps is
\* not freed
LcboxFuncCall(h, t, oom, fault) ==
    /\ handles[h] # 0
    /\ cf_state[handles[h]] = "live"
    /\ CallBegin(t, handles[h], oom, fault)

\* lcbox_func_call on an object whose struct cbox_func was freed: the read of
\* its mod_sym is a read of freed memory; the process ends, or the memory is
\* as it was and the call goes on
LcboxFuncCallFreed(h, t, fault) ==
    /\ handles[h] # 0
    /\ cf_state[handles[h]] = "freed"
    /\ IF fault
       THEN /\ ~crashed
            /\ frames[t] = 0
            /\ crashed' = TRUE
            /\ UNCHANGED <<modules, mod_hash, mod_syms, dso, installs, frames,
                           ret, diag>>
            /\ UNCHANGED <<rvars, box_vars>>
       ELSE CallBegin(t, handles[h], FALSE, FALSE)

\* module_reload of a package in whose symbol list a freed struct cbox_func
\* has stayed: the walk over the list reads freed memory; the process ends
\* (that the memory is as it was and the reload goes on is ModuleReload)
ModuleReloadFreed(package) ==
    /\ ~crashed
    /\ LET old == module_cache_find(Heap, package)
       IN  /\ old # 0
           /\ module_find(package)
           /\ \E cf \in CboxFuncs :
                 cf_state[cf] = "freed" /\ mod_syms[cf].module = old
    /\ crashed' = TRUE
    /\ UNCHANGED <<modules, mod_hash, mod_syms, dso, installs, frames, ret, diag>>
    /\ UNCHANGED <<rvars, box_vars>>

\* ------------------------------------------------------------ specification

NoCall == [rejected |-> {}, eofs |-> {}, stop |-> UnsetClock, rc |-> 0]

InitRec ==
    /\ wal_files = <<>>
    /\ wal_vclock = ZeroClock
    /\ deletes = 0
    /\ r_state = "none"
    /\ r_vclock = ZeroClock
    /\ r_force = FALSE
    /\ cursor = NewCursor
    /\ wal_dir_index = <<>>
    /\ last = NoCall
    /\ emitted = <<>>
    /\ hs_pc = "none"
    /\ hs_scan_dir = FALSE
    /\ ws_events = {}
    /\ ws_file = 0
    /\ cancelled = FALSE
    /\ watcher = FALSE

\* module_init: the cache is empty, nothing is bound, no call is in flight
InitMod ==
    /\ modules = <<>>
    /\ mod_hash = [p \in Packages |-> 0]
    /\ mod_syms = [b \in Syms |-> [addr |-> NullAddr, module |-> 0]]
    /\ dso = [p \in Packages |-> Symbols]
    /\ installs = 0
    /\ frames = [t \in Tasks |-> 0]
    /\ crashed = FALSE
    /\ ret = [op |-> "init", package |-> <<>>, rc |-> 0, module |-> 0]
    /\ diag = [t \in Tasks |-> "none"]

InitFunc ==
    /\ funcs = [f \in Funcs |->
                   [exists |-> FALSE, uid |-> 0, setuid |-> FALSE,
                    owner_credentials |-> "empty",
                    access |-> [u \in Users |-> {}]]]
    /\ universal_access = [u \in Users |-> {}]
    /\ entity_access = [u \in Users |-> {}]
    /\ grants = 0
    /\ session_uid = 0
    /\ effective = 0
    /\ fstack = <<>>
    /\ fret = [func |-> 0, rc |-> 0, at |-> "init"]

InitCbox ==
    /\ cf_state = [b \in Syms |-> "none"]
    /\ cf_ref = [b \in Syms |-> 0]
    /\ func_rb_root = {}
    /\ handles = [h \in 1..MaxHandles |-> 0]
    /\ cbox_ret = [op |-> "init", name |-> <<>>, rc |-> 0, cf |-> 0]

Init == InitRec /\ InitMod /\ InitFunc /\ InitCbox

\* the clocks a recovery starts from: checkpoints taken before the end of the log
StartClocks == {v \in Vclock : vclock_sum(v) < MaxSignature}

StopChoices == {UnsetClock} \cup {SetClock(v) : v \in Vclock}

\* the WAL writer and the file system
WalNext ==
    \/ \E id \in Replicas : WalWrite(id)
    \/ WalEof
    \/ \E prev \in PrevChoices : WalRotate(prev)
    \/ \E i \in 1..MaxSegs : WalDelete(i)

\* a recovery driven by direct calls (initial recovery, a relay)
NextRec ==
    \/ WalNext
    \/ \E v \in StartClocks, f \in BOOLEAN : RecoveryNew(v, f)
    \/ \E stop \in StopChoices, scan_dir \in BOOLEAN, plan \in FaultPlans :
          RecoverRemainingWals(stop, scan_dir, plan)
    \/ RecoveryFinalize
    \/ RecoveryDelete
    \/ \E cause \in {"check", "oom"}, fault \in BOOLEAN :
          RecoveryNewFail(cause, fault)

SpecRec == Init /\ [][NextRec]_vars

\* the prev_vclock of a new segment that names the clock of its predecessor
ChainPrev ==
    IF LastSeg = 0 THEN {UnsetClock} ELSE {SetClock(wal_files[LastSeg].vclock)}

\* a recovery from the start of a log of up to MaxLossSegs segments, each of
\* which names the clock of its predecessor as prev_vclock; a segment is
\* removed; the calls have no bound, scan the directory and meet no fault
NextLoss ==
    \/ \E id \in Replicas : WalWrite(id)
    \/ WalEof
    \/ \E prev \in ChainPrev : WalRotateUpTo(MaxLossSegs, prev)
    \/ \E i \in 1..MaxLossSegs : WalDelete(i)
    \/ \E f \in BOOLEAN : RecoveryNew(ZeroClock, f)
    \/ RecoverRemainingWals(UnsetClock, TRUE, NoFault)

SpecLoss == Init /\ [][NextLoss]_vars

\* --------------------------------------------------- properties of the replay

\* the clock a <= b in every component
ClockLeq(a, b) == \A i \in Replicas : a[i] <= b[i]

\* the possible calls of recover_remaining_wals
Calls == StopChoices \X BOOLEAN \X FaultPlans

\* the values r->vclock takes in a call, the one before the call first
ClockPath(call) == <<r_vclock>> \o ReplayResult(call[1], call[2], call[3]).res.clocks

\* C1: every row passed to the stream had an lsn above R.vclock[replica_id]
\* at the moment it was read
C1_EmittedAboveClock ==
    \A k \in 1..Len(emitted) : emitted[k].lsn > emitted[k].pre

\* a row was emitted on top of an earlier row of its replica
C1_Witness ==
    \E k \in 1..Len(emitted) : emitted[k].pre > 0 /\ emitted[k].lsn > emitted[k].pre

\* C2: no component of R.vclock ever retreats: each value a call of
\* recover_remaining_wals gives to the clock, on opening a segment or on a row,
\* is at least the value before it
C2_ClockNeverRetreats ==
    r_state = "ready" =>
        \A call \in Calls :
            LET path == ClockPath(call)
            IN  /\ \A k \in 1..(Len(path) - 1) : ClockLeq(path[k], path[k + 1])
                /\ ReplayResult(call[1], call[2], call[3]).res.vclock = path[Len(path)]

\* a call opens a segment whose clock is not comparable with R.vclock, and
\* moves the clock
C2_Witness ==
    /\ r_state = "ready"
    /\ \E call \in Calls :
          LET out == ReplayResult(call[1], call[2], call[3])
          IN  /\ out.res.rc = 0
              /\ Len(out.res.clocks) >= 1
              /\ out.res.cursor.seg # cursor.seg
              /\ vclock_compare(r_vclock, out.res.cursor.meta.vclock)
                     = VCLOCK_ORDER_UNDEFINED

\* C3: over the life of the recovery object the rows emitted for one replica
\* have strictly increasing lsns
C3_EmittedLsnIncreasing ==
    \A j, k \in 1..Len(emitted) :
        (j < k /\ emitted[j].replica_id = emitted[k].replica_id)
            => emitted[j].lsn < emitted[k].lsn

\* two rows of one replica were emitted, from different segments
C3_Witness ==
    \E j, k \in 1..Len(emitted) :
        /\ j < k
        /\ emitted[j].replica_id = emitted[k].replica_id
        /\ emitted[j].seg # emitted[k].seg

\* C4: a call with a bound T that returns success leaves R.vclock = T, with
\* force_recovery as well as without
C4_StopsAtBound ==
    (r_state \in {"ready", "finalized"} /\ vclock_is_set(last.stop) /\ last.rc = 0)
        => r_vclock = last.stop.v

\* a permissive recovery has stopped at its bound, before the end of the log
C4_Witness ==
    /\ r_state = "ready"
    /\ r_force
    /\ vclock_is_set(last.stop)
    /\ last.rc = 0
    /\ emitted # <<>>
    /\ r_vclock = last.stop.v
    /\ r_vclock # wal_vclock

\* C5: rows are emitted in the order of the directory: a row of a segment of
\* lower signature comes before every row of a segment of higher signature,
\* and the rows of one segment come in the order of the file
C5_DirectoryOrder ==
    \A j, k \in 1..Len(emitted) :
        LET a == emitted[j]
            b == emitted[k]
        IN  /\ vclock_sum(SegVclock(a.seg)) < vclock_sum(SegVclock(b.seg)) => j < k
            /\ (a.seg = b.seg /\ a.pos < b.pos) => j < k

\* rows of two segments were emitted, the segment of lower signature first
C5_Witness ==
    \E j, k \in 1..Len(emitted) :
        /\ j < k
        /\ vclock_sum(SegVclock(emitted[j].seg)) < vclock_sum(SegVclock(emitted[k].seg))

\* a recovery in hot standby
NextHs ==
    \/ WalNext
    \/ \E v \in StartClocks, f \in BOOLEAN : RecoveryNew(v, f)
    \/ RecoveryFollowLocal
    \/ HsCancelled
    \/ \E plan \in FaultPlans : HsReplay(plan)
    \/ HsAfter
    \/ \E timed_out \in BOOLEAN : HsWake(timed_out)
    \/ RecoveryStopLocal
    \/ RecoveryStopJoin
    \/ RecoveryFinalize
    \/ RecoveryDelete

SpecHs == Init /\ [][NextHs]_vars

\* hot standby from an empty log on, with a writer that removes nothing, a
\* stream and a directory that do not fail, and nobody who cancels; the
\* fiber runs when it can, and the timeout of its wait expires
NextFollow ==
    \/ \E id \in Replicas : WalWrite(id)
    \/ WalEof
    \/ \E prev \in PrevChoices : WalRotate(prev)
    \/ \E f \in BOOLEAN : RecoveryNew(ZeroClock, f)
    \/ RecoveryFollowLocal
    \/ HsReplay(NoFault)
    \/ HsAfter
    \/ \E timed_out \in BOOLEAN : HsWake(timed_out)

\* hot_standby_f: the fiber is at a point from which it runs a pass
PassEnabled == (hs_pc = "top" /\ ~cancelled) \/ hs_pc = "again"

\* weak fairness of the steps of the fiber; that of the pass is written with
\* its enabling condition, which is PassEnabled: a pass always leaves the
\* fiber at another point or the recovery at another clock
SpecFollow ==
    /\ Init
    /\ [][NextFollow]_vars
    /\ ([]<>(~PassEnabled) \/ []<><<HsReplay(NoFault)>>_vars)
    /\ WF_vars(HsAfter)
    /\ WF_vars(HsWake(TRUE))

\* hot standby and its stop, with a writer that removes nothing; the fiber
\* runs when it can, the timeout of its wait expires, and fiber_join returns
\* once the fiber is dead
NextStop ==
    \/ \E id \in Replicas : WalWrite(id)
    \/ WalEof
    \/ \E prev \in PrevChoices : WalRotate(prev)
    \/ \E f \in BOOLEAN : RecoveryNew(ZeroClock, f)
    \/ RecoveryFollowLocal
    \/ HsCancelled
    \/ \E plan \in FaultPlans : HsReplay(plan)
    \/ HsAfter
    \/ \E timed_out \in BOOLEAN : HsWake(timed_out)
    \/ RecoveryStopLocal
    \/ RecoveryStopJoin

\* weak fairness of the steps of the fiber and of the join; that of the pass
\* is written with its enabling condition
SpecStop ==
    /\ Init
    /\ [][NextStop]_vars
    /\ ([]<>(~PassEnabled) \/ []<><<\E plan \in FaultPlans : HsReplay(plan)>>_vars)
    /\ WF_vars(HsCancelled)
    /\ WF_vars(HsAfter)
    /\ WF_vars(HsWake(TRUE))
    /\ WF_vars(RecoveryStopJoin)

\* the functions, the privileges on them and a fiber that calls them
NextFunc ==
    \/ \E uid \in Users : SessionCreate(uid)
    \/ \E func \in Funcs, uid \in Users, setuid \in BOOLEAN :
          FuncNew(func, uid, setuid)
    \/ \E uid \in Users, priv \in Privs : GrantUniversal(uid, priv)
    \/ \E uid \in Users, priv \in Privs : GrantEntity(uid, priv)
    \/ \E func \in Funcs, uid \in Users, priv \in Privs :
          GrantFunc(func, uid, priv)
    \/ \E func \in Funcs, found \in BOOLEAN : FuncCall(func, found)
    \/ \E rc \in {0, -1} : FuncReturn(rc)

SpecFunc == Init /\ [][NextFunc]_vars

\* the functions of cbox, their Lua objects and their calls, made by one
\* fiber, with functions that succeed and a cache that has the memory it needs
NextCbox ==
    \/ \E name \in Names, oom \in BOOLEAN : LcboxFuncLoad(name, oom)
    \/ \E name \in Names : LcboxFuncUnload(name)
    \/ \E h \in Handles, fault \in BOOLEAN : LcboxFuncGc(h, fault)
    \/ \E h \in Handles : LcboxFuncCall(h, Least(Tasks), FALSE, FALSE)
    \/ \E h \in Handles, fault \in BOOLEAN :
          LcboxFuncCallFreed(h, Least(Tasks), fault)
    \/ CallEnd(Least(Tasks), 0, FALSE)
    \/ \E package \in Packages : ModuleReload(package, FALSE, FALSE)
    \/ \E package \in Packages : ModuleReloadFreed(package)

SpecCbox == Init /\ [][NextCbox]_vars

\* the module cache and the fibers that use it
NextMod ==
    \/ \E package \in Packages, exports \in (SUBSET Symbols) \cup {NotFound} :
          Install(package, exports)
    \/ \E b \in Syms, oom \in BOOLEAN : ModuleSymLoad(b, oom)
    \/ \E b \in Syms, fault \in BOOLEAN : ModuleSymUnload(b, fault)
    \/ \E t \in Tasks, b \in Syms, oom \in BOOLEAN, fault \in BOOLEAN :
          CallBegin(t, b, oom, fault)
    \/ \E t \in Tasks, rc \in {0, 1}, said \in BOOLEAN : CallEnd(t, rc, said)
    \/ \E package \in Packages, oom \in BOOLEAN, assertions \in BOOLEAN :
          ModuleReload(package, oom, assertions)

SpecMod == Init /\ [][NextMod]_vars

\* ------------------------------------------------- the end of the cache

\* the packages the cache holds
Cached(h) == {p \in Packages : h.mod_hash[p] # 0}

\* what a read of the memory of a module freed before can give: the fields
\* as they were, the pattern TRASH has written over them, or a fault
FreedReads == {"intact", "trashed", "fault"}

\* module_free is not running and has not run
Running == ret.op \notin {"free", "freed"}

\* module_free, one turn of its loop: module_gc of the module that mh_first
\* finds under `package`; the entry stays in the cache
module_free(h, package, read) ==
    LET m == h.mod_hash[package]
    IN  IF h.modules[m].loaded \/ read = "intact" THEN module_gc(h, m)
        ELSE IF read = "trashed" THEN h
        ELSE Crash(h)

\* module_free: the test of the loop and, while the cache holds a package,
\* one turn; with the cache empty the cache is deleted and the call returns
ModuleFree(package, read) ==
    /\ ~crashed
    /\ ret.op # "freed"
    /\ IF Cached(Heap) = {}
       THEN /\ UNCHANGED <<modules, mod_hash, mod_syms, crashed>>
            /\ ret' = [op |-> "freed", package |-> <<>>, rc |-> 0, module |-> 0]
       ELSE /\ package \in Cached(Heap)
            /\ read # "intact" => ~modules[mod_hash[package]].loaded
            /\ Store(module_free(Heap, package, read))
            /\ ret' = [op |-> "free", package |-> <<>>, rc |-> 0, module |-> 0]
    /\ UNCHANGED <<dso, installs, frames, diag, rvars, box_vars>>

\* bindings are made and dropped and one fiber calls functions until
\* module_free is called, which runs without yielding
NextFree ==
    \/ Running /\ \E package \in Packages,
                     exports \in (SUBSET Symbols) \cup {NotFound} :
                        Install(package, exports)
    \/ Running /\ \E b \in Syms : ModuleSymLoad(b, FALSE)
    \/ Running /\ \E b \in Syms : ModuleSymUnload(b, FALSE)
    \/ Running /\ \E b \in Syms : CallBegin(1, b, FALSE, FALSE)
    \/ Running /\ CallEnd(1, 0, FALSE)
    \/ \E package \in Packages, read \in FreedReads : ModuleFree(package, read)

\* the loop of module_free goes on while it can
SpecFree ==
    /\ Init
    /\ [][NextFree]_vars
    /\ WF_vars(ret.op = "free" /\ \E package \in Packages, read \in FreedReads :
                                     ModuleFree(package, read))

\* ------------------------------------------------ properties of the cache

Range(list) == {list[k] : k \in 1..Len(list)}
Modules == 1..Len(modules)
SymOf(b) == parse_func_name(SymName(b)).sym

\* the step is a module_reload of `package` that loaded a new module
ReloadStep(package) ==
    /\ \E oom \in BOOLEAN, assertions \in BOOLEAN :
          ModuleReload(package, oom, assertions)
    /\ mod_hash[package] # 0
    /\ Len(modules') = Len(modules) + 1

\* C6: after module_reload succeeds for a cached package every binding of
\* the old module is attached to the new module with its address resolved
\* there, the cache maps the package to the new module, and the old module
\* is destroyed at once if and only if it has no call in flight.
C6_ReloadMovesBindings ==
    [][\A package \in Packages :
         (ReloadStep(package) /\ ret'.rc = 0) =>
            LET old == mod_hash[package]
                new == Len(modules')
            IN  /\ ret'.module = new
                /\ \A b \in Range(modules[old].mod_sym_head) :
                      /\ mod_syms'[b] = [addr |-> Addr(new, SymOf(b)),
                                         module |-> new]
                      /\ SymOf(b) \in modules'[new].exports
                      /\ b \in Range(modules'[new].mod_sym_head)
                /\ rlist_empty(modules'[old].mod_sym_head)
                /\ mod_hash'[package] = new
                /\ modules'[new].loaded
                /\ ~modules'[old].loaded <=> modules[old].calls = 0]_vars

\* a reload has moved two bindings to the new module while a call was in
\* flight in the old one, which is alive
C6_Witness ==
    /\ ret.op = "reload" /\ ret.rc = 0 /\ ret.module > 1
    /\ mod_hash[ret.package] = ret.module
    /\ Len(modules[ret.module].mod_sym_head) >= 2
    /\ \E t \in Tasks : /\ frames[t] \notin {0, ret.module}
                        /\ modules[frames[t]].package = ret.package
                        /\ modules[frames[t]].loaded

\* C7: if module_reload fails after the new module was loaded, then on return
\* every binding that belonged to the old module is attached to the old
\* module again with its address resolved there, the new module has no
\* bindings when it is destroyed, and the cache maps the package to the old
\* module still.
C7_FailedReloadRestores ==
    [][\A package \in Packages :
         (ReloadStep(package) /\ ret'.rc # 0 /\ ~crashed') =>
            LET old == mod_hash[package]
                new == Len(modules')
            IN  /\ \A b \in Range(modules[old].mod_sym_head) :
                      /\ mod_syms'[b] = [addr |-> Addr(old, SymOf(b)),
                                         module |-> old]
                      /\ b \in Range(modules'[old].mod_sym_head)
                /\ rlist_empty(modules'[new].mod_sym_head)
                /\ ~modules'[new].loaded
                /\ mod_hash'[package] = old]_vars

\* C8: a call in flight survives reload and unload: no step destroys a module
\* that a call is in; the return of the last call in a module without
\* bindings destroys it; a call that begins goes through a binding of the
\* module it pins, and after a reload has succeeded a call through a binding
\* that the reload moved pins the new module; a module that a reload has
\* replaced takes no further call.
Replaced(m) ==
    /\ modules[m].loaded
    /\ mod_hash[modules[m].package] # m
    /\ rlist_empty(modules[m].mod_sym_head)

C8_CallSurvivesReload ==
    [][/\ \A m \in Modules :
            (modules[m].loaded /\ ~modules'[m].loaded) =>
               /\ modules'[m].calls = 0
               /\ \A t \in Tasks : frames'[t] # m
       /\ \A t \in Tasks :
            (frames[t] # 0 /\ frames'[t] = 0 /\ ~crashed') =>
               LET m == frames[t]
               IN  /\ modules'[m].calls = modules[m].calls - 1
                   /\ (modules'[m].calls = 0 /\ rlist_empty(modules[m].mod_sym_head))
                         => ~modules'[m].loaded
       /\ \A t \in Tasks :
            (frames[t] = 0 /\ frames'[t] # 0) =>
               LET m == frames'[t]
               IN  /\ \E b \in Range(modules'[m].mod_sym_head) :
                         mod_syms'[b].module = m
                   /\ modules'[m].calls = (IF m \in Modules THEN modules[m].calls
                                           ELSE 0) + 1
                   /\ m \in Modules => ~Replaced(m)
                   /\ (/\ ret.op = "reload" /\ ret.rc = 0 /\ ret.module # 0
                       /\ mod_hash[ret.package] = ret.module
                       /\ ret'.package = ret.package
                       /\ \E b \in Range(modules[ret.module].mod_sym_head) :
                             mod_syms'[b].module = m)
                         => m = ret.module]_vars

\* one call is in flight in a module that a reload has replaced, another in
\* the module that replaced it
C8_Witness ==
    \E t \in Tasks, u \in Tasks :
       /\ frames[t] # 0 /\ frames[u] # 0
       /\ Replaced(frames[t])
       /\ mod_hash[modules[frames[t]].package] = frames[u]
       /\ modules[frames[u]].package = modules[frames[t]].package
       /\ ~rlist_empty(modules[frames[u]].mod_sym_head)

\* C9: a module is destroyed only when its list of bindings is empty and no
\* call is in it: while the process runs no binding refers to a destroyed
\* module and no destroyed module has a binding in its list.
C9_NoBindingOfDestroyed ==
    ~crashed =>
       /\ \A b \in Syms :
             mod_syms[b].module # 0 => modules[mod_syms[b].module].loaded
       /\ \A m \in Modules :
             ~modules[m].loaded => rlist_empty(modules[m].mod_sym_head)

C11_CallsCountInvocations ==
    \A m \in Modules :
       /\ modules[m].calls = Cardinality({t \in Tasks : frames[t] = m})
       /\ modules[m].calls >= 0

\* two calls were in one module, one of them has returned with an error
C11_Witness ==
    /\ ret.op = "return" /\ ret.rc = -1
    /\ modules[ret.module].calls = 1
    /\ \E t \in Tasks : frames[t] = ret.module

FirstOpened == vclockset_match(wal_dir_index', r_vclock)

\* the step is a call of recover_remaining_wals that opens the first segment
\* of the recovery object
OpensFirst == r_state = "ready" /\ cursor.state = "NEW" /\ cursor'.state # "NEW"

\* C13: when the first segment a recovery object opens starts at a vclock
\* that is greater than the recovery clock or incomparable with it, then in
\* strict mode recover_remaining_wals fails, the cursor rests at the start of
\* that segment and no row of it is emitted; in permissive mode
\* recovery_open_log returns 0 and the segment is read.
C13_GapOnFirstSegment ==
    [][(OpensFirst /\ vclock_compare(SegVclock(FirstOpened), r_vclock) > 0) =>
          LET st == Activation(cursor, r_vclock, emitted)
              o == recovery_open_log(st, FirstOpened, r_force, NoFault)
          IN  IF ~r_force
              THEN /\ o.rc = -1
                   /\ last'.rc = -1
                   /\ r_state' = "failed"
                   /\ emitted' = emitted
                   /\ cursor'.seg = FirstOpened /\ cursor'.pos = 0
              ELSE /\ o.rc = 0
                   /\ (cursor'.seg = FirstOpened /\ last'.rc = 0
                       /\ ~vclock_is_set(last'.stop))
                         => cursor'.pos = Len(wal_files[FirstOpened].rows)]_vars

\* strict mode: the call has failed on a first segment that has rows and
\* starts above the recovery clock in one component
C13_Witness ==
    /\ r_state = "failed" /\ ~r_force
    /\ cursor.state = "ACTIVE" /\ cursor.pos = 0
    /\ Len(wal_files[cursor.seg].rows) > 0
    /\ emitted = <<>>
    /\ vclock_compare(cursor.meta.vclock, r_vclock) = VCLOCK_ORDER_UNDEFINED

\* the clock a segment ends at: its starting clock followed by its rows
RECURSIVE FollowRows(_, _)
FollowRows(v, rows) ==
    IF rows = <<>> THEN v
    ELSE FollowRows(vclock_follow_xrow(v, Head(rows)), Tail(rows))

EndVclock(seg) == FollowRows(wal_files[seg].vclock, wal_files[seg].rows)

\* the segments that a call without bound and without faults would open
Opens(scan_dir) == ReplayResult(UnsetClock, scan_dir, NoFault).res.opens

C15_ClockAtLeastSegment ==
    r_state = "ready" =>
       \A scan_dir \in BOOLEAN : \A k \in 1..Len(Opens(scan_dir)) :
          LET o == Opens(scan_dir)[k]
          IN  ClockLeq(SegVclock(o.seg), o.after)

\* ------------------------------------------- properties of rejected rows

\* the row at position pos of segment seg was emitted
Emitted(out, seg, pos) ==
    \E k \in 1..Len(out) : out[k].seg = seg /\ out[k].pos = pos

\* C16: when the stream rejects a row the recovery clock has been advanced
\* to the lsn of the row; in strict mode the call returns an error there;
\* in permissive mode the call goes on with the rows that follow, and a
\* rejected row is never emitted.
C16_RejectedRowSkipped ==
    /\ [](r_state \in {"ready", "failed", "finalized"} =>
             \A x \in last.rejected :
                /\ r_vclock[x.replica_id] >= x.lsn
                /\ \A k \in 1..Len(emitted) :
                      ~(emitted[k].replica_id = x.replica_id
                        /\ emitted[k].lsn = x.lsn))
    /\ [][\A x \in last'.rejected \ last.rejected :
            IF ~r_force
            THEN /\ last'.rc = -1
                 /\ r_state' = "failed"
                 /\ r_vclock'[x.replica_id] = x.lsn
                 /\ cursor'.seg = x.seg /\ cursor'.pos = x.pos
            ELSE (last'.rc = 0 /\ ~vclock_is_set(last'.stop)) =>
                    \A p \in (x.pos + 1)..Len(wal_files[x.seg].rows) :
                       LET row == wal_files[x.seg].rows[p]
                       IN  \/ Emitted(emitted', x.seg, p)
                           \/ row.lsn <= r_vclock[row.replica_id]]_vars

\* permissive mode: a row was rejected and the row after it in the segment
\* was emitted by a call that succeeded
C16_Witness ==
    /\ r_force /\ r_state = "ready" /\ last.rc = 0
    /\ \E x \in last.rejected : Emitted(emitted, x.seg, x.pos + 1)

\* ------------------------------------------------ properties of the replay

\* all rows of the log, in the order of the segments
RECURSIVE RowsFrom(_)
RowsFrom(i) ==
    IF i > Len(wal_files) THEN <<>> ELSE wal_files[i].rows \o RowsFrom(i + 1)

\* the directory holds every segment written, all rows are of replica id, and
\* no segment but the first carries a prev_vclock other than the header clock
\* of the segment before it
PlainLog(id) ==
    /\ Len(wal_files) > 0
    /\ \A i \in 1..Len(wal_files) :
          /\ wal_files[i].present
          /\ \A k \in 1..Len(wal_files[i].rows) : wal_files[i].rows[k].replica_id = id
          /\ (i > 1 /\ vclock_is_set(wal_files[i].prev_vclock))
                => wal_files[i].prev_vclock.v = wal_files[i - 1].vclock

\* C17: a row at or below the recovery clock is a no-op: a call on a log that
\* lies at or below the clock emits nothing and leaves the clock; and a
\* recovery that starts at {id: k} on a log with the rows 1..N of replica id,
\* k <= N, emits the rows k+1..N, once each and in order, and ends at N.
C17_IdempotentReplay ==
    r_state = "ready" =>
       \A scan_dir \in BOOLEAN :
          LET res == ReplayResult(UnsetClock, scan_dir, NoFault).res
              N == Len(RowsFrom(1))
          IN  /\ ClockLeq(wal_vclock, r_vclock) =>
                    res.emitted = emitted /\ res.vclock = r_vclock
              /\ \A id \in Replicas :
                    LET k == r_vclock[id]
                    IN  (/\ scan_dir /\ cursor.state = "NEW" /\ PlainLog(id)
                         /\ r_vclock = [ZeroClock EXCEPT ![id] = k] /\ k <= N)
                          => /\ res.rc = 0
                             /\ Len(res.emitted) = N - k
                             /\ \A j \in 1..(N - k) :
                                   /\ res.emitted[j].replica_id = id
                                   /\ res.emitted[j].lsn = k + j
                             /\ res.vclock[id] = N

\* a recovery that started at {1: 1} has replayed a log of two rows in two
\* segments and has emitted the second row only
C17_Witness ==
    /\ r_state = "ready" /\ last.rc = 0 /\ PlainLog(1)
    /\ Len(wal_files) = 2 /\ Len(RowsFrom(1)) = 2
    /\ Len(emitted) = 1 /\ emitted[1].lsn = 2 /\ emitted[1].pre = 1
    /\ r_vclock[1] = 2
    /\ cursor.seg = 2 /\ cursor.pos = 1

\* ------------------------------------------ properties of the hot standby

\* the step is a pass of the inner loop of hot_standby_f
PassStep ==
    /\ \/ hs_pc = "top" /\ ~cancelled
       \/ hs_pc = "again"
    /\ hs_pc' # hs_pc \/ r_vclock' # r_vclock

\* C18: the fiber starts another pass at once only if the pass before has
\* raised the signature of the recovery clock and has left no cursor open;
\* after a pass that left a cursor open or made no progress it goes to the
\* watcher, rows are replayed in passes only, and it comes back to the top of
\* the loop only with an event pending, on a timeout or cancelled.
C18_NoTightSpin ==
    [][/\ PassStep =>
             /\ hs_pc' = "again" =>
                   /\ vclock_sum(r_vclock') > vclock_sum(r_vclock)
                   /\ ~xlog_cursor_is_open(cursor')
             /\ (last'.rc = 0 /\ (\/ xlog_cursor_is_open(cursor')
                                  \/ vclock_sum(r_vclock') <= vclock_sum(r_vclock)))
                   => hs_pc' = "after"
       /\ (emitted' # emitted \/ cursor' # cursor) =>
             \/ PassStep
             \/ hs_pc = "none"
       /\ (hs_pc = "after" /\ hs_pc' # hs_pc) =>
             hs_pc' = IF ws_events = {} THEN "wait" ELSE "top"
       /\ (hs_pc = "wait" /\ hs_pc' # hs_pc) =>
             /\ hs_pc' = "top"
             /\ ws_events # {} \/ cancelled \/ hs_scan_dir']_vars

\* the fiber is parked in the wait after passes that have emitted a row and
\* left the cursor open on a segment without EOF marker, with no event pending
C18_Witness ==
    /\ hs_pc = "wait" /\ ws_events = {} /\ ~cancelled
    /\ cursor.state = "ACTIVE"
    /\ ~wal_files[cursor.seg].eof
    /\ cursor.pos = Len(wal_files[cursor.seg].rows)
    /\ \E k \in 1..Len(emitted) : emitted[k].seg = cursor.seg

\* the fiber of the hot standby runs
Following == hs_pc \in {"top", "again", "after", "wait"}

\* every row of the log was emitted once and the recovery clock is the clock
\* of the writer
CaughtUp ==
    /\ r_vclock = wal_vclock
    /\ \A i \in 1..Len(wal_files) : \A p \in 1..Len(wal_files[i].rows) :
          Cardinality({k \in 1..Len(emitted) :
                          emitted[k].seg = i /\ emitted[k].pos = p}) = 1
    /\ Len(emitted) = Len(RowsFrom(1))

\* C19: in follow mode, with the fiber scheduled and its timeout expiring,
\* without errors and cancellation, every row appended to the open segment
\* and every row of a segment created after it is emitted once in the end,
\* and the recovery clock reaches the end of the log, unless a pass fails.
C19_FollowCatchesUp == Following ~> (CaughtUp \/ r_state = "failed")

\* the fiber has caught up with a log of two segments that both hold rows
\* and has its cursor on the second
C19_Witness ==
    /\ Following /\ CaughtUp
    /\ Len(wal_files) = 2
    /\ Len(wal_files[1].rows) > 0 /\ Len(wal_files[2].rows) > 0
    /\ cursor.seg = 2

\* C20: cancel and watcher events leave the fiber where it is; a pass runs to
\* its end whether the fiber is cancelled or not; the fiber ends only at the
\* top of its loop when cancelled, or on a failed pass, and has then destroyed
\* its watcher; recovery_stop_local, having cancelled the fiber, returns in
\* the end, with r->watcher null.
C20_StopReturns ==
    /\ [][/\ (cancelled' # cancelled \/ wal_vars' # wal_vars \/ watcher' # watcher)
                => (hs_pc' = hs_pc \/ hs_pc = "none")
          /\ (hs_pc = "again" /\ hs_pc' # hs_pc) => PassStep /\ hs_pc' # "top"
          /\ (hs_pc' = "dead" /\ hs_pc # "dead") =>
                /\ \/ hs_pc = "top" /\ cancelled
                   \/ PassEnabled /\ last'.rc # 0
                /\ ws_file' = 0 /\ ws_events' = {}
          /\ (hs_pc = "dead" /\ hs_pc' # "dead") => ~watcher /\ hs_pc' = "none"]_vars
    /\ (cancelled /\ ~watcher) ~> (hs_pc = "none" /\ ~watcher)

\* the fiber was cancelled during its passes: it is about to run another
\* pass, cancelled, with rows to read
C20_Witness ==
    /\ hs_pc = "again" /\ cancelled /\ ~watcher
    /\ Len(emitted) > 0
    /\ Len(emitted) < Len(RowsFrom(1))

\* an on_close_log trigger that fails the first time it is run
TriggerFault == [kind |-> "trigger", at |-> 1]

\* C21: a call of recover_remaining_wals that succeeds leaves the cursor
\* open only short of the EOF marker of its segment; a cursor that has read
\* the marker is closed and the on_close_log triggers are run for its
\* segment, as they are for every segment the call has left behind; a trigger
\* that fails makes the call fail.
C21_CursorOpenIffNoEof ==
    (r_state = "ready" /\ hs_pc = "none") =>
        \A stop \in StopChoices, scan_dir \in BOOLEAN :
           LET ok == ReplayResult(stop, scan_dir, NoFault).res
               bad == ReplayResult(stop, scan_dir, TriggerFault).res
           IN  /\ ok.rc = 0 =>
                    /\ ok.cursor.state \in {"NEW", "ACTIVE", "EOF_CLOSED"}
                    /\ xlog_cursor_is_open(ok.cursor) <=>
                          /\ ok.cursor.seg # 0
                          /\ ~xlog_cursor_is_eof(ok.cursor)
                    /\ (/\ ok.cursor.state = "EOF_CLOSED"
                        /\ ok.cursor # cursor)
                          => /\ ok.closes # <<>>
                             /\ ok.closes[Len(ok.closes)] = ok.cursor.seg
                    /\ \A k \in 1..Len(ok.opens) :
                          \/ \E j \in 1..Len(ok.closes) :
                                ok.closes[j] = ok.opens[k].seg
                          \/ /\ ok.opens[k].seg = ok.cursor.seg
                             /\ ok.cursor.state = "ACTIVE"
               /\ bad.struck <=> ok.closes # <<>>
               /\ bad.struck => bad.rc = -1

\* a call has succeeded that read the first segment to its EOF marker and
\* every row of the second, which has no marker yet: the cursor is open
C21_Witness ==
    /\ r_state = "ready" /\ last.rc = 0
    /\ cursor.state = "ACTIVE" /\ cursor.seg = 2
    /\ ~wal_files[2].eof
    /\ cursor.pos = Len(wal_files[2].rows) /\ cursor.pos > 0
    /\ wal_files[1].eof
    /\ Emitted(emitted, 1, 1) /\ Emitted(emitted, 2, 1)

\* C22: module_reload of a package that is not in the cache loads no module,
\* leaves the cache, the modules and the bindings as they are and returns 0
\* with a null module; cbox.module.reload then gives the script a
\* NoSuchModule error.
C22_ReloadOfUncached ==
    [][\A package \in Packages :
         (/\ \E oom \in BOOLEAN, assertions \in BOOLEAN :
                ModuleReload(package, oom, assertions)
          /\ mod_hash[package] = 0) =>
            /\ UNCHANGED <<modules, mod_hash, mod_syms, dso, frames, crashed>>
            /\ ret'.rc = 0 /\ ret'.module = 0
            /\ ret'.lua = "NoSuchModule"]_vars

\* a package that is not cached was reloaded while another package was
\* cached with a binding
C22_Witness ==
    /\ ret.op = "reload" /\ ret.lua = "NoSuchModule"
    /\ mod_hash[ret.package] = 0
    /\ \E package \in Packages :
          /\ mod_hash[package] # 0
          /\ ~rlist_empty(modules[mod_hash[package]].mod_sym_head)

\* C25: when the function returns non-zero, module_sym_call returns -1 with
\* the port destroyed; the error of the task is then the one the function has
\* set, or, when it has set none, the generic "unknown error".
C25_CalleeErrorReported ==
    [][\A t \in Tasks, said \in BOOLEAN :
         CallEnd(t, 1, said) =>
            /\ ret'.rc = -1
            /\ ret'.port = "destroyed"
            /\ diag'[t] = "set"
            /\ ReportedDiag(1, diag_last_error(t, said)) =
                  IF said THEN "callee" ELSE "unknown"]_vars

\* ------------------------------------------------ properties of func_call

\* C23: func_call leaves the fiber with the credentials it was entered with,
\* whether it returns at the access check, at the lookup of the owner, or
\* after the function, with whatever result; outside of every call the
\* credentials are those of the session.
C23_IdentityRestored ==
    /\ [](fstack = <<>> => effective = 0)
    /\ [][/\ Len(fstack') < Len(fstack) =>
                /\ effective' = Head(fstack).entered
                /\ fstack' = Tail(fstack)
                /\ fret'.at = "return"
          /\ Len(fstack') = Len(fstack) => effective' = effective
          /\ Len(fstack') > Len(fstack) =>
                /\ Head(fstack').entered = effective
                /\ Tail(fstack') = fstack]_vars

\* a setuid function owned by another user, called from a setuid function
\* owned by another user than the one of the session, has returned an error
\* and left the fiber with the credentials of the outer function
C23_Witness ==
    /\ fret.at = "return" /\ fret.rc = -1
    /\ funcs[fret.func].setuid
    /\ Len(fstack) = 1
    /\ funcs[Head(fstack).func].setuid
    /\ effective = Head(fstack).func
    /\ effective # fret.func
    /\ funcs[effective].uid # session_uid
    /\ funcs[fret.func].uid # funcs[effective].uid

\* C24: func_access_check lets a user call a function exactly when the
\* universal access of the user holds both EXECUTE and USAGE, or USAGE is
\* granted on the universe or on all functions and the user owns the function
\* or EXECUTE is granted on the universe, on all functions or on the
\* function; a call that is refused switches no credentials and enters no
\* function.
C24_AccessCheckExact ==
    /\ [](\A uid \in Users, func \in Funcs :
            funcs[func].exists =>
               LET universal == universal_access[uid]
                   class == entity_access[uid]
                   acl == funcs[func].access[uid]
               IN  (func_access_check(uid, func) = 0) <=>
                      \/ {"X", "U"} \subseteq universal
                      \/ /\ "U" \in universal \cup class
                         /\ \/ funcs[func].uid = uid
                            \/ "X" \in universal \cup class \cup acl)
    /\ [][\A func \in Funcs, found \in BOOLEAN :
            (/\ FuncCall(func, found)
             /\ func_access_check(UidOf(effective), func) # 0) =>
                /\ UNCHANGED <<effective, fstack, funcs>>
                /\ fret' = [func |-> func, rc |-> -1, at |-> "access"]]_vars

\* a function is being called by a user who does not own it, with USAGE
\* granted on all functions and EXECUTE granted on the function only
C24_Witness ==
    /\ Len(fstack) = 1
    /\ LET func == Head(fstack).func
           uid == session_uid
       IN  /\ funcs[func].uid # uid
           /\ universal_access[uid] = {}
           /\ entity_access[uid] = {"U"}
           /\ funcs[func].access[uid] = {"X"}

\* ------------------------------------------------------ properties of cbox

\* C26: the counter of a function object is never negative and the object is
\* in the tree exactly while the counter is above 0; cbox.func.load of a name
\* that is in the tree gives the object of the tree and adds one to its
\* counter; cbox.func.unload takes one from the counter of the object of the
\* tree, and fails, changing nothing, when the name is not in the tree.
C26_RefCountAndTree ==
    /\ [](\A cf \in CboxFuncs :
            /\ cf_ref[cf] >= 0
            /\ cf \in func_rb_root <=> cf_ref[cf] > 0
            /\ cf \in func_rb_root => cf_state[cf] = "live")
    /\ [][\A name \in Names :
            LET cf == cbox_func_find(name)
            IN  /\ (LcboxFuncLoad(name, FALSE) /\ cf # 0) =>
                      /\ cbox_ret'.rc = 0 /\ cbox_ret'.cf = cf
                      /\ cf_ref' = [cf_ref EXCEPT ![cf] = @ + 1]
                      /\ \E h \in Handles : handles[h] = 0 /\ handles'[h] = cf
                /\ LcboxFuncUnload(name) =>
                      IF cf = 0
                      THEN /\ cbox_ret'.rc = -1
                           /\ UNCHANGED <<cf_state, cf_ref, func_rb_root,
                                          handles, mod_vars>>
                      ELSE /\ cbox_ret'.rc = 0
                           /\ cf_ref' = [cf_ref EXCEPT ![cf] = @ - 1]]_vars

\* a name was loaded twice and unloaded twice: both Lua objects wrap the one
\* function object, which is out of the tree, and one more unload has failed
C26_Witness ==
    /\ cbox_ret.op = "unload" /\ cbox_ret.rc = -1
    /\ \E cf \in CboxFuncs :
          /\ SymName(cf) = cbox_ret.name
          /\ cf_state[cf] = "live" /\ cf_ref[cf] = 0
          /\ \A h \in Handles : handles[h] = cf

\* C27: the storage of a function object is freed only when its counter is 0
\* and no Lua object wraps it any more, so no Lua object wraps freed storage
\* and a collection never reads or frees an object that was freed before.
C27_ReleasedOnce ==
    /\ [](\A h \in Handles :
            handles[h] # 0 => cf_state[handles[h]] = "live")
    /\ [][\A h \in Handles, fault \in BOOLEAN :
            LcboxFuncGc(h, fault) =>
                LET cf == handles[h]
                IN  /\ cf_state[cf] = "live"
                    /\ cf_state'[cf] = "freed" =>
                          /\ cf_ref[cf] = 0
                          /\ \A g \in Handles \ {h} : handles[g] # cf]_vars

\* C28: a function object whose counter is 0, or whose storage was freed, is
\* in the symbol list of no module, so that no reload, unload or collection
\* of a module walks over it.
C28_DetachedAtZero ==
    \A cf \in CboxFuncs :
        (cf_state[cf] = "freed" \/ (cf_state[cf] = "live" /\ cf_ref[cf] = 0))
            => mod_syms[cf].module = 0

\* ------------------------------------------- properties of recovery_new

\* C29: a recovery_new that meets an error, be it the allocation of the
\* object or the check of the directory, returns NULL: the process goes on
\* and there is no recovery object.
C29_NewReturnsNull ==
    [][\A cause \in {"check", "oom"}, fault \in BOOLEAN :
          RecoveryNewFail(cause, fault) => (r_state' = "null" /\ ~crashed')]_vars

\* C30: without force_recovery, a recovery_scan that cannot open the last
\* segment of the directory returns an error.
C30_ScanPropagates ==
    (r_state = "ready" /\ ~r_force) =>
        \A fault \in ScanFaults :
            LET scanned == recovery_scan(r_vclock, fault)
            IN  (fault = "open" /\ scanned.opens) => scanned.rc = -1

\* ------------------------------------------ properties of the hot standby

\* C31: the fiber starts with scan_dir set; a pass of the fiber scans the
\* directory exactly when scan_dir is set; where the outer loop turns, after
\* the wait or past it, scan_dir becomes set exactly when the wait has timed
\* out or a ROTATE event is pending, so not after a WRITE event alone, and
\* the pending events are cleared in that same step.
C31_RescanDecision ==
    [][/\ RecoveryFollowLocal => hs_scan_dir'
       /\ HsReplay(NoFault) =>
             wal_dir_index' = IF hs_scan_dir THEN xdir_scan ELSE wal_dir_index
       /\ (hs_pc \in {"after", "wait"} /\ hs_pc' = "top") =>
             /\ ws_events' = {}
             /\ "ROTATE" \in ws_events => hs_scan_dir'
             /\ \A timed_out \in BOOLEAN :
                   (hs_pc = "wait" /\ HsWake(timed_out)) =>
                       (hs_scan_dir' <=> (timed_out \/ "ROTATE" \in ws_events))
             /\ hs_pc = "after" => (hs_scan_dir' <=> "ROTATE" \in ws_events)
             /\ (HsWake(FALSE) /\ ws_events = {"WRITE"}) => ~hs_scan_dir']_vars

\* the fiber was woken by a WRITE event alone and has then replayed a row
\* from the open cursor, with the index of the directory as it was
C31_Witness ==
    /\ hs_pc = "after" /\ ~hs_scan_dir /\ ~cancelled
    /\ xlog_cursor_is_open(cursor)
    /\ \E k \in 1..Len(emitted) :
          emitted[k].seg = cursor.seg /\ emitted[k].pos = cursor.pos
    /\ wal_dir_index # xdir_scan

\* the events a step of the writer fires: a change of the directory, or of
\* the file that is watched
Fired ==
    IF wal_files' = wal_files THEN {}
    ELSE IF Len(wal_files') # Len(wal_files)
            \/ \E i \in 1..Len(wal_files) : wal_files'[i].present # wal_files[i].present
    THEN {"ROTATE"}
    ELSE FileEvent(LastSeg)

\* C32: an event that fires while the fiber is in its loop and not in the
\* wait is added to the pending events and the fiber stays where it is; the
\* pending events are cleared only where the outer loop turns (or the fiber
\* ends), with scan_dir set when ROTATE was among them; the fiber goes into
\* the wait only with no event pending, and from the top of the loop it goes
\* on only by a pass: so between an event and the next wait there is a pass.
C32_NoEventLost ==
    [][/\ (hs_pc \in {"top", "again", "after"} /\ wal_files' # wal_files) =>
             /\ ws_events' = ws_events \cup Fired
             /\ hs_pc' = hs_pc
       /\ (ws_events # {} /\ ~(ws_events \subseteq ws_events')) =>
             \/ hs_pc' = "dead"
             \/ /\ hs_pc \in {"after", "wait"} /\ hs_pc' = "top"
                /\ "ROTATE" \in ws_events => hs_scan_dir'
       /\ (hs_pc = "after" /\ hs_pc' # "after" /\ ws_events # {}) => hs_pc' = "top"
       /\ (hs_pc # "wait" /\ hs_pc' = "wait") => (hs_pc = "after" /\ ws_events = {})
       /\ (hs_pc = "top" /\ hs_pc' # "top") =>
             \/ hs_pc' = "dead"
             \/ \E plan \in FaultPlans : HsReplay(plan)]_vars

\* a ROTATE event has fired during the passes of the fiber, which have
\* emitted a row, and is pending where the fiber would go into its wait
C32_Witness ==
    /\ hs_pc = "after" /\ ~cancelled
    /\ "ROTATE" \in ws_events
    /\ emitted # <<>>

\* --------------------------------------- properties of the bounded replay

\* a segment of the index that a call has yet to read: it lies at or above
\* the recovery clock and above the segment the cursor is on or was last on
Eligible(seg) ==
    /\ vclock_sum(SegVclock(seg)) >= vclock_sum(r_vclock)
    /\ cursor.state # "NEW" =>
          vclock_sum(SegVclock(seg)) > vclock_sum(cursor.meta.vclock)

\* C33: a call with a bound opens no segment whose signature is at or above
\* that of the bound and passes no row to the stream when the signature of
\* the recovery clock is at or above it; a call without a bound that succeeds
\* opens every segment of the index it has yet to read and leaves the cursor
\* behind the last row of the segment it ends on, when the index has it.
C33_BoundRespected ==
    r_state = "ready" =>
        \A call \in Calls :
            LET stop == call[1]
                out == ReplayResult(stop, call[2], call[3])
                res == out.res
            IN  /\ vclock_is_set(stop) =>
                      /\ \A k \in 1..Len(res.opens) :
                            vclock_sum(SegVclock(res.opens[k].seg)) <
                                vclock_sum(stop.v)
                      /\ \A k \in 1..Len(res.sigs) :
                            res.sigs[k] < vclock_sum(stop.v)
                /\ (~vclock_is_set(stop) /\ call[3] = NoFault /\ res.rc = 0) =>
                      /\ \A k \in 1..Len(out.index) :
                            Eligible(out.index[k]) =>
                                \E j \in 1..Len(res.opens) :
                                    res.opens[j].seg = out.index[k]
                      /\ (res.cursor.state # "NEW"
                             /\ InIndex(out.index, res.cursor.seg)) =>
                            res.cursor.pos = Len(wal_files[res.cursor.seg].rows)

\* a bounded call from the state would stop inside a segment, before a row
\* it has read, and an unbounded one would open two segments
C33_Witness ==
    /\ r_state = "ready"
    /\ \E stop \in StopChoices :
          LET res == ReplayResult(stop, TRUE, NoFault).res
          IN  /\ vclock_is_set(stop) /\ res.rc = 0
              /\ res.sigs # <<>>
              /\ res.cursor.state = "ACTIVE"
              /\ res.cursor.pos <= Len(wal_files[res.cursor.seg].rows)
              /\ Len(res.emitted) < res.cursor.pos
    /\ Len(ReplayResult(UnsetClock, TRUE, NoFault).res.opens) = 2

\* C34 (as the code has it): a call entered with the cursor closed at the
\* EOF marker of a segment opens only segments of a higher signature; a call
\* opens segments in the order of their signatures, none twice; and a
\* segment that was read to its EOF marker before is opened again only by a
\* call that finds its cursor open on a segment the index has no more.
C34_ConsumedSkippedAtEof ==
    r_state = "ready" =>
        \A call \in Calls :
            LET out == ReplayResult(call[1], call[2], call[3])
                res == out.res
            IN  \A k \in 1..Len(res.opens) :
                    /\ xlog_cursor_is_eof(cursor) =>
                          vclock_sum(SegVclock(res.opens[k].seg)) >
                              vclock_sum(cursor.meta.vclock)
                    /\ \A j \in 1..(k - 1) :
                          vclock_sum(SegVclock(res.opens[j].seg)) <
                              vclock_sum(SegVclock(res.opens[k].seg))
                    /\ res.opens[k].seg \in last.eofs =>
                          /\ xlog_cursor_is_open(cursor)
                          /\ ~InIndex(out.index, cursor.seg)

\* the cursor was closed at the EOF marker of a segment that is still in the
\* directory; a call with a scan would pass over it and open the next one
C34_Witness ==
    /\ r_state = "ready"
    /\ cursor.state = "EOF_CLOSED" /\ cursor.seg \in last.eofs
    /\ InIndex(xdir_scan, cursor.seg)
    /\ LET res == ReplayResult(UnsetClock, TRUE, NoFault).res
       IN  /\ res.rc = 0
           /\ Len(res.opens) = 1
           /\ res.opens[1].seg # cursor.seg

\* C34 (as stated): a call opens no segment that an earlier call of the
\* recovery has read to its EOF marker.
C34_ConsumedNotReopened ==
    r_state = "ready" =>
        \A call \in Calls :
            LET res == ReplayResult(call[1], call[2], call[3]).res
            IN  \A k \in 1..Len(res.opens) : res.opens[k].seg \notin last.eofs

\* ------------------------------- properties of a log that loses a segment

\* the cursor is open on a segment that the directory has no more
StaleCursor == xlog_cursor_is_open(cursor) /\ ~InIndex(xdir_scan, cursor.seg)

\* C35: a call that scans the directory and finds the segment of its open
\* cursor gone does not fail; the first segment it opens takes the place of
\* the stale cursor, and the rows it emits follow those emitted before in
\* the order of the lsns of each replica.
C35_LossDoesNotFail ==
    (r_state = "ready" /\ StaleCursor) =>
        LET res == ReplayResult(UnsetClock, TRUE, NoFault).res
        IN  /\ res.rc = 0
            /\ res.opens # <<>> => res.opens[1].from = cursor.seg
            /\ \A j, k \in 1..Len(res.emitted) :
                  (j < k /\ res.emitted[j].replica_id = res.emitted[k].replica_id)
                      => res.emitted[j].lsn < res.emitted[k].lsn

\* ----------------------------------- properties of binding and unbinding

\* the modules of a heap that are loaded
LoadedIn(mods) == {m \in 1..Len(mods) : mods[m].loaded}

\* C36: a module_sym_load that fails leaves every binding, the cache and
\* the set of loaded modules as they were.
C36_FailedLoadLeavesState ==
    [][\A b \in Syms, oom \in BOOLEAN :
          (ModuleSymLoad(b, oom) /\ ret'.rc # 0) =>
              /\ mod_syms' = mod_syms
              /\ mod_hash' = mod_hash
              /\ LoadedIn(modules') = LoadedIn(modules)]_vars

\* C37: module_sym_unload of a bound symbol takes it off the list of its
\* module and clears its address and module; when it was the last binding
\* the package leaves the cache and the module is destroyed at once exactly
\* when no call is in flight, otherwise by the return of the last call; the
\* unload of an unbound symbol changes nothing.
C37_UnloadReleases ==
    [][/\ \A b \in Syms :
             ModuleSymUnload(b, FALSE) =>
                 LET m == mod_syms[b].module
                     package == parse_func_name(SymName(b)).package
                     rest == Remove(modules[m].mod_sym_head, b)
                 IN  IF m = 0
                     THEN /\ modules' = modules
                          /\ mod_hash' = mod_hash
                          /\ mod_syms' = mod_syms
                          /\ crashed' = crashed
                     ELSE /\ ~crashed'
                          /\ modules'[m].mod_sym_head = rest
                          /\ mod_syms' = [mod_syms EXCEPT ![b] =
                                             [addr |-> NullAddr, module |-> 0]]
                          /\ IF rest = <<>>
                             THEN /\ mod_hash' = [mod_hash EXCEPT ![package] = 0]
                                  /\ modules[m].loaded
                                  /\ modules'[m].loaded <=> modules[m].calls # 0
                             ELSE /\ mod_hash' = mod_hash
                                  /\ mod_hash[package] = m
                                  /\ modules'[m].loaded = modules[m].loaded
       /\ \A t \in Tasks, rc \in {0, 1}, said \in BOOLEAN :
             CallEnd(t, rc, said) =>
                 LET m == frames[t]
                 IN  (modules[m].mod_sym_head = <<>> /\ modules[m].calls = 1)
                         => ~modules'[m].loaded /\ ~crashed']_vars

\* the same where the binding does not refer to a module freed before
UnloadReleasesIntact ==
    [][/\ \A b \in Syms :
             (~Dangling(Heap, b) /\ ModuleSymUnload(b, FALSE)) =>
                 LET m == mod_syms[b].module
                     package == parse_func_name(SymName(b)).package
                     rest == Remove(modules[m].mod_sym_head, b)
                 IN  IF m = 0
                     THEN /\ modules' = modules
                          /\ mod_hash' = mod_hash
                          /\ mod_syms' = mod_syms
                          /\ crashed' = crashed
                     ELSE /\ ~crashed'
                          /\ modules'[m].mod_sym_head = rest
                          /\ mod_syms' = [mod_syms EXCEPT ![b] =
                                             [addr |-> NullAddr, module |-> 0]]
                          /\ IF rest = <<>>
                             THEN /\ mod_hash' = [mod_hash EXCEPT ![package] = 0]
                                  /\ modules'[m].loaded <=> modules[m].calls # 0
                             ELSE /\ mod_hash' = mod_hash
                                  /\ mod_hash[package] = m
                                  /\ modules'[m].loaded
       /\ \A t \in Tasks, rc \in {0, 1}, said \in BOOLEAN :
             CallEnd(t, rc, said) =>
                 LET m == frames[t]
                 IN  (modules[m].loaded /\ modules[m].mod_sym_head = <<>>
                                            /\ modules[m].calls = 1)
                         => ~modules'[m].loaded /\ ~crashed']_vars

\* ------------------------------------------- properties of module_free

\* C38: module_free ends, whatever the cache holds when it is called, with
\* the cache deleted, no module of the cache left loaded and the process
\* alive.
C38_ModuleFreeTerminates ==
    /\ (~Running) ~> (ret.op = "freed")
    /\ [](ret.op = "freed" =>
             /\ ~crashed
             /\ \A p \in Cached(Heap) : ~modules[mod_hash[p]].loaded)

\* ------------------------------------ properties of the cursor at entry

\* C39: between the calls the cursor is never open and at EOF, so that the
\* assertion at the entry of recover_remaining_wals holds for every call:
\* a call that has read a segment to its EOF marker closes the cursor, or
\* opens the next segment, before it returns.
C39_EntryAssertion ==
    xlog_cursor_is_open(cursor) => ~xlog_cursor_is_eof(cursor)

\* a call has read a segment to its EOF marker and has returned with the
\* cursor closed, and the recovery can be called again
C39_Witness ==
    /\ r_state = "ready"
    /\ last.rc = 0
    /\ cursor.seg \in last.eofs
    /\ cursor.state = "EOF_CLOSED"

\* ------------------------------ properties of a replay that is resumed

\* a strict recovery whose last call had a bound, has succeeded and has left
\* the cursor inside a segment that the index still holds
StoppedInside ==
    /\ r_state = "ready"
    /\ ~r_force
    /\ vclock_is_set(last.stop)
    /\ last.rc = 0
    /\ cursor.state = "ACTIVE"
    /\ InIndex(wal_dir_index, cursor.seg)

\* C40: a replay with a bound that has stopped inside a segment has taken
\* no row beyond its bound: resumed without a bound, the replay emits every
\* row of that segment whose lsn is above the recovery clock.
C40_BoundConsumesNothing ==
    StoppedInside =>
        LET res == ReplayResult(UnsetClock, FALSE, NoFault).res
            rows == wal_files[cursor.seg].rows
        IN  /\ res.rc = 0
            /\ \A k \in 1..Len(rows) :
                  rows[k].lsn > vclock_get(r_vclock, rows[k].replica_id) =>
                      \E j \in 1..Len(res.emitted) :
                          /\ res.emitted[j].seg = cursor.seg
                          /\ res.emitted[j].pos = k

====
